---- MODULE Spec2Model ----
(***************************************************************************)
(* Lumora Studio Pro: the WebGL image renderer (WebGLImageRenderer), its   *)
(* mask compositor, and the DevelopView / ExportDialog code that drives    *)
(* it.                                                                     *)
(*                                                                         *)
(* A frame is followed at NRows sample rows of one column (row 1 is the    *)
(* top of the picture) and in one colour channel.  Channel values inside   *)
(* the adjustment shader are fixed-point numbers with ONE units per 1.0;   *)
(* render targets and the canvas hold 8-bit values 0..255.  The edits the  *)
(* model varies are exposure, contrast and the tone curve; every other     *)
(* uniform stays at the neutral value renderWithEdits passes for it.       *)
(***************************************************************************)
EXTENDS Integers, Naturals, Sequences, FiniteSets, TLC

\* ------------------------------------------------------------------ bounds
NRows == 2
MaxMasks == 2
MaxCtxGen == 2

Rows == 1..NRows

\* --------------------------------------------------------- program constants
LUT_SIZE == 256
POOL_SIZE == 3
ONE == 1020
CLEAR8 == 17

\* ------------------------------------------------------------- arithmetic
\* The element of a one-element set.  Only({ e : x \in {v} }) computes v once
\* and uses it as x throughout e.
Only(T) == CHOOSE x \in T : TRUE

Clamp(v, lo, hi) == Only({ IF x < lo THEN lo ELSE IF x > hi THEN hi ELSE x : x \in {v} })

Abs(v) == Only({ IF x < 0 THEN 0 - x ELSE x : x \in {v} })

\* r[k] || dflt for a field that may be missing
Field(r, k, dflt) == IF k \in DOMAIN r THEN r[k] ELSE dflt

\* { ...a, ...b }
Spread(a, b) == [k \in (DOMAIN a) \cup (DOMAIN b) |-> IF k \in DOMAIN b THEN b[k] ELSE a[k]]

\* round to nearest, halves up (Math.round / GPU store), d > 0
RoundDiv(n, d) == Only({ (2 * n + x) \div (2 * x) : x \in {d} })

\* Non-negative big numbers: little-endian sequences of base-1000 digits.
BASE == 1000

RECURSIVE BN(_)
BN(n) == Only({ IF x < BASE THEN <<x>> ELSE <<x % BASE>> \o BN(x \div BASE) : x \in {n} })

RECURSIVE BMulC(_, _, _)
BMulC(a, k, carry) ==
  Only({ IF Len(x) = 0 THEN (IF c = 0 THEN <<>> ELSE BN(c))
         ELSE Only({ <<p % BASE>> \o BMulC(Tail(x), k, p \div BASE) :
                     p \in {Head(x) * k + c} }) :
         x \in {a}, c \in {carry} })

\* a * k for 0 <= k <= 2000000
BMul(a, k) == BMulC(a, k, 0)

RECURSIVE BAddC(_, _, _)
BAddC(a, b, carry) ==
  Only({ IF Len(x) = 0 /\ Len(y) = 0 THEN (IF c = 0 THEN <<>> ELSE <<c>>)
         ELSE Only({ <<s % BASE>> \o BAddC(IF Len(x) = 0 THEN x ELSE Tail(x),
                                           IF Len(y) = 0 THEN y ELSE Tail(y),
                                           s \div BASE) :
                     s \in {(IF Len(x) = 0 THEN 0 ELSE Head(x))
                            + (IF Len(y) = 0 THEN 0 ELSE Head(y)) + c} }) :
         x \in {a}, y \in {b}, c \in {carry} })

BAdd(a, b) == BAddC(a, b, 0)

RECURSIVE BTrim(_)
BTrim(a) ==
  Only({ IF Len(x) > 1 /\ x[Len(x)] = 0 THEN BTrim(SubSeq(x, 1, Len(x) - 1)) ELSE x :
         x \in {a} })

\* a <= b
BLeq(a, b) ==
  Only({ IF Len(x) # Len(y) THEN Len(x) < Len(y)
         ELSE \A i \in 1..Len(x) :
                (x[i] > y[i]) => \E k \in (i + 1)..Len(x) : x[k] < y[k] :
         x \in {BTrim(a)}, y \in {BTrim(b)} })

\* ----------------------------------------------------------- curve LUT builder
\* A control point is <<x, y>>; the editor keeps both in 0..255.
RECURSIVE InsertByX(_, _)
InsertByX(s, p) ==
  Only({ IF Len(x) = 0 THEN <<p>>
         ELSE IF p[1] < Head(x)[1] THEN <<p>> \o x
         ELSE <<Head(x)>> \o InsertByX(Tail(x), p) : x \in {s} })

RECURSIVE SortByX(_)
SortByX(points) ==
  Only({ IF Len(x) = 0 THEN <<>>
         ELSE InsertByX(SortByX(SubSeq(x, 1, Len(x) - 1)), x[Len(x)]) : x \in {points} })

\* index j of the first pair with sorted[j].x <= i/255 <= sorted[j+1].x, 0 if none
Bracket(sorted, i) ==
  Only({ IF J = {} THEN 0 ELSE CHOOSE j \in J : \A k \in J : j <= k :
         J \in {{ j \in 1..(Len(sorted) - 1) :
                    i >= 255 * sorted[j][1] /\ i <= 255 * sorted[j + 1][1] }} })

\* largest r in lo..hi with r * d2 + q <= m  (m, d2, q big numbers, d2 > 0, q <= m)
RECURSIVE FloorSearch(_, _, _, _, _)
FloorSearch(m, d2, q, lo, hi) ==
  Only({ IF l = h THEN l
         ELSE Only({ IF BLeq(BAdd(BMul(d2, mid), q), m) THEN FloorSearch(m, d2, q, mid, h)
                     ELSE FloorSearch(m, d2, q, l, mid - 1) :
                     mid \in {(l + h + 1) \div 2} }) :
         l \in {lo}, h \in {hi} })

\* 255*y for t = a/b (b > 0), y = ly + dy * t^2 * (3 - 2t):
\*   255*y = (255*ly*b^3 + 255*dy*a^2*(3b-2a)) / b^3, rounded and clamped
LutValue(ly, dy, a, b) ==
  Only({ Only({ IF ~((dy < 0 /\ w > 0) \/ (dy > 0 /\ w < 0))
                THEN FloorSearch(BAdd(p2, q2), den2, BN(0), 0, 255)
                ELSE IF BLeq(p2, q2) THEN 0
                ELSE FloorSearch(p2, den2, q2, 0, 255) :
                den2 \in {BMul(den, 2)},
                p2 \in {BAdd(BMul(den, 2 * 255 * ly), den)},
                q2 \in {BMul(BMul(BMul(BMul(BN(255 * Abs(dy)), Abs(a)), Abs(a)), Abs(w)), 2)} }) :
         w \in {3 * b - 2 * a}, den \in {BMul(BMul(BN(b), b), b)} })

\* The level-i entry: x = i/255, t = (x - lower.x)/range, smoothstep, lerp,
\* clamp(round(y * 255))
LutEntry(sorted, i) ==
  Only({ Only({ IF upper[1] - lower[1] <= 0 THEN Clamp(255 * lower[2], 0, 255)
                ELSE LutValue(lower[2], upper[2] - lower[2],
                              i - 255 * lower[1], 255 * (upper[1] - lower[1])) :
                lower \in {IF j = 0 THEN sorted[1] ELSE sorted[j]},
                upper \in {IF j = 0 THEN sorted[Len(sorted)] ELSE sorted[j + 1]} }) :
         j \in {Bracket(sorted, i)} })

\* the table as a sequence: entry i of the code's lut is element i + 1
RECURSIVE LutRange(_, _, _)
LutRange(sorted, lo, hi) ==
  Only({ IF l = h THEN <<IF Len(sorted) < 2 THEN l ELSE LutEntry(sorted, l)>>
         ELSE LutRange(sorted, l, (l + h) \div 2) \o LutRange(sorted, (l + h) \div 2 + 1, h) :
         l \in {lo}, h \in {hi} })

BuildLUT(points) ==
  Only({ LutRange(s, 0, LUT_SIZE - 1) :
         s \in {IF Len(points) < 2 THEN <<>> ELSE SortByX(points)} })

\* ------------------------------------------------------- adjustment shaders
\* hasCustomCurve without the length test
hasCustomCurveAnyLength(points) ==
  \E k \in 1..Len(points) : 2 * Abs(points[k][1] - points[k][2]) > 1

\* curvePoints.length >= 2 && curvePoints.some(p => Math.abs(p.x - p.y) > 0.5)
hasCustomCurve(points) ==
  Len(points) >= 2 /\ \E k \in 1..Len(points) : 2 * Abs(points[k][1] - points[k][2]) > 1

\* color *= pow(2.0, u_exposure), integer exposures
RECURSIVE ExposureStage(_, _)
ExposureStage(c, e) ==
  Only({ IF k = 0 THEN x
         ELSE IF k > 0 THEN ExposureStage(2 * x, k - 1)
         ELSE ExposureStage(x \div 2, k + 1) : x \in {c}, k \in {e} })

\* u_contrast = contrast * 2.55;
\* contrastFactor = 259 (u + 255) / (255 (259 - u)) = 259 (contrast + 100) / (25900 - 255 contrast);
\* (color - 0.5) * contrastFactor + 0.5, the argument of the stage's clamp
ContrastLinear(c, contrast) ==
  Only({ (IF den > 0 THEN RoundDiv(x, 2 * den) ELSE RoundDiv(0 - x, 2 * (0 - den)))
         + ONE \div 2 :
         x \in {(2 * c - ONE) * 259 * (contrast + 100)},
         den \in {25900 - 255 * contrast} })

\* color = clamp((color - 0.5) * contrastFactor + 0.5, 0, 1)
ContrastStage(c, contrast) ==
  Only({ Clamp(v, 0, ONE) : v \in {ContrastLinear(c, contrast)} })

\* texture2D(u_curveLUT, vec2(clamp(c, 0, 1), 0.25)): 256 texels, LINEAR, CLAMP_TO_EDGE
SampleLUT(lut, c) ==
  Only({ Only({ RoundDiv((ONE \div 255)
                         * (lut[Clamp(i0, 0, LUT_SIZE - 1) + 1] * (2 * ONE - f)
                            + lut[Clamp(i0 + 1, 0, LUT_SIZE - 1) + 1] * f), 2 * ONE) :
                i0 \in {u \div (2 * ONE)}, f \in {u % (2 * ONE)} }) :
         u \in {2 * LUT_SIZE * Clamp(c, 0, ONE) - ONE} })

\* the value an 8-bit target stores for a shader output
Store8(c) == RoundDiv(255 * Clamp(c, 0, ONE), ONE)

\* FRAGMENT_SHADER main: exposure, contrast, tone-curve lookup, final clamp
FRAGMENT_SHADER(texel, u, lut) ==
  Only({ Store8(IF u.curveEnabled THEN SampleLUT(lut, c2) ELSE c2) :
         c2 \in {ContrastStage(ExposureStage(texel * (ONE \div 255), u.exposure),
                               u.contrast)} })

\* FALLBACK_FRAGMENT_SHADER main: no tone-curve lookup
FALLBACK_FRAGMENT_SHADER(texel, u) ==
  Store8(ContrastStage(ExposureStage(texel * (ONE \div 255), u.exposure), u.contrast))

\* a blend that weights the layer by 1 - alpha
BlendInvertedAlpha(base, layer, alpha) ==
  Only({ RoundDiv(base * m + layer * (255 - m), 255) : m \in {alpha} })

\* BLEND_FRAGMENT_SHADER: mix(base, layer, alpha), alpha = mask red channel / 255
BLEND_FRAGMENT_SHADER(base, layer, alpha) ==
  Only({ RoundDiv(base * (255 - m) + layer * m, 255) : m \in {alpha} })

\* DRAW_FRAGMENT_SHADER: the texel itself
DRAW_FRAGMENT_SHADER(texel) == texel

\* ------------------------------------------------------------------ geometry
\* the rows of a target, top row first, each computed by shade
RECURSIVE RowsFrom(_, _)
RowsFrom(shade, y) == IF y > NRows THEN <<>> ELSE <<shade[y]>> \o RowsFrom(shade, y + 1)

Raster(shade) == RowsFrom(shade, 1)

\* initGeometry: the quad's bottom vertices carry texture row 1.0 and its top
\* vertices row 0.0.  An uploaded image or canvas has its top row at texture
\* row 0; a render target's texture has the bottom of what was drawn into it
\* at texture row 0.  Every pass reads texture row y for output row y (rows
\* counted from the top), so writing a pass into a render target stores it
\* upside down relative to what the next pass will read.
FlipY(px) == Raster([y \in Rows |-> px[NRows + 1 - y]])

TargetTexture(out) == Only({ FlipY(px) : px \in {out} })

Blank == Raster([y \in Rows |-> 0])

Cleared == Raster([y \in Rows |-> CLEAR8])

\* ------------------------------------------------------------------- inputs
Images == {1, 2}
\* image 3 is flat: every pixel has the same value
ImagePx(img) == Raster([y \in Rows |-> IF img = 3 THEN 100 ELSE (67 * img + 50 * y) % 256])

DefaultCurve == <<<<0, 0>>, <<64, 64>>, <<128, 128>>, <<192, 192>>, <<255, 255>>>>
CustomCurve  == <<<<0, 0>>, <<1, 2>>>>
SteepCurve   == <<<<0, 0>>, <<64, 64>>, <<128, 160>>, <<192, 192>>, <<255, 255>>>>
\* a single control point off the diagonal
OnePointCurve == <<<<128, 200>>>>
\* initCurveLUT's table is the one the builder yields for no points
IdentityCurve == <<>>
CurveSet == {IdentityCurve, DefaultCurve, CustomCurve, SteepCurve}

\* the 256 texels the LUT texture holds after an upload built from each curve;
\* the context records which curve its LUT texture was last built from
LUTS == (IdentityCurve :> BuildLUT(IdentityCurve)) @@ (DefaultCurve :> BuildLUT(DefaultCurve))
        @@ (CustomCurve :> BuildLUT(CustomCurve)) @@ (SteepCurve :> BuildLUT(SteepCurve))
        @@ (OnePointCurve :> BuildLUT(OnePointCurve))

Edit(e, c, curve) == [exposure |-> e, contrast |-> c, toneCurve |-> curve]
DEFAULT_EDITS == Edit(0, 0, DefaultCurve)
EditSet == {DEFAULT_EDITS, Edit(1, 0, DefaultCurve), Edit(0, 0, CustomCurve)}

NoCanvas == <<>>
AlphaFull == Raster([y \in Rows |-> 255])
AlphaTop  == Raster([y \in Rows |-> IF y = 1 THEN 255 ELSE 0])
AlphaHalf == Raster([y \in Rows |-> 128])

Adj(e, c) == [exposure |-> e, contrast |-> c]
Mask(adj, en, cv) == [adjustments |-> adj, enabled |-> en, canvas |-> cv]
MaskSet == { Mask(Adj(1, 0), TRUE, AlphaTop),
             Mask(Adj(-1, 20), TRUE, AlphaHalf),
             Mask(Adj(1, 0), FALSE, AlphaFull),
             Mask(Adj(1, 0), TRUE, NoCanvas) }

RECURSIVE SeqsUpTo(_, _)
SeqsUpTo(S, n) ==
  IF n = 0 THEN {<<>>}
  ELSE LET shorter == SeqsUpTo(S, n - 1)
       IN  shorter \cup {Append(q, x) : q \in {p \in shorter : Len(p) = n - 1}, x \in S}

\* the lists of up to MaxMasks masks; the masks of a list are distinct objects
MaskLists ==
  { ms \in SeqsUpTo(MaskSet, MaxMasks) :
      \A i, j \in 1..Len(ms) : ms[i] = ms[j] => i = j }

CanvasSizes == {<<2, 2>>, <<3, 2>>}

\* -------------------------------------------------------------------- state
VARIABLES
  env,         \* what the platform will answer: context available, compile/link verdicts
  ctor,        \* "new" before construction, then "ok" or "threw"
  shaderLog,   \* the compile and link calls initShaders made, in order
  rdr,         \* the fields of WebGLImageRenderer
  canvas,      \* the HTMLCanvasElement: width, height, displayed rows
  gl,          \* the GL context: lost flag, generation, texture and uniform data
               \* (lutCurve: the points the LUT texture's texels were built from)
  last,        \* the last call made, what it did, what an export captured
  view,        \* DevelopView: rendererRef, loaded image, the stores' edits and masks
  calc,        \* one call of a function taken on its own: its name, argument, result
  store        \* useEditStore: edits, history, historyIndex, isDirty

vars == <<env, ctor, shaderLog, rdr, canvas, gl, last, view, calc, store>>

\* A GL object handle is the generation of the context that created it; 0 is null.
NULL == 0
NoProgram == [h |-> NULL, src |-> "none"]

\* The working state of one call: renderer fields, canvas, context, and the
\* calls issued so far (draws, allocs, fboBinds, threw).  A pool slot's texels
\* (px) live only for the duration of a call: every pass that reads a slot
\* comes after a clear or draw of the same call into that slot, so what an
\* earlier call left there is never sampled.
RECURSIVE WithPx(_)
WithPx(pool) ==
  IF Len(pool) = 0 THEN <<>>
  ELSE <<[fbo |-> Head(pool).fbo, tex |-> Head(pool).tex, px |-> Blank]>>
       \o WithPx(Tail(pool))

RECURSIVE WithoutPx(_)
WithoutPx(pool) ==
  IF Len(pool) = 0 THEN <<>>
  ELSE <<[fbo |-> Head(pool).fbo, tex |-> Head(pool).tex]>> \o WithoutPx(Tail(pool))

Pack == [ program |-> rdr.program, usingFallbackShader |-> rdr.usingFallbackShader,
          texture |-> rdr.texture, curveTexture |-> rdr.curveTexture,
          imageLoaded |-> rdr.imageLoaded, image |-> rdr.image,
          vertexBuffer |-> rdr.vertexBuffer,
          blendProgram |-> rdr.blendProgram, drawProgram |-> rdr.drawProgram,
          fboPool |-> WithPx(rdr.fboPool),
          fboWidth |-> rdr.fboWidth, fboHeight |-> rdr.fboHeight,
          cw |-> canvas.width, ch |-> canvas.height, cpx |-> canvas.px,
          lost |-> gl.lost, gen |-> gl.gen, texData |-> gl.texData, live |-> gl.live,
          lutCurve |-> gl.lutCurve, uniforms |-> gl.uniforms,
          draws |-> 0, allocs |-> 0, fboBinds |-> 0, threw |-> FALSE, drew |-> FALSE,
          poolBuilds |-> 0, passes |-> FALSE, passLog |-> <<>>, deletes |-> 0 ]

Fields(S) == [ program |-> S.program, usingFallbackShader |-> S.usingFallbackShader,
               texture |-> S.texture, curveTexture |-> S.curveTexture,
               imageLoaded |-> S.imageLoaded, image |-> S.image,
               vertexBuffer |-> S.vertexBuffer,
               blendProgram |-> S.blendProgram, drawProgram |-> S.drawProgram,
               fboPool |-> WithoutPx(S.fboPool),
               fboWidth |-> S.fboWidth, fboHeight |-> S.fboHeight ]

CanvasOf(S) == [width |-> S.cw, height |-> S.ch, px |-> S.cpx]

ContextOf(S) == [lost |-> S.lost, gen |-> S.gen, texData |-> S.texData, live |-> S.live,
                 lutCurve |-> S.lutCurve, uniforms |-> S.uniforms]

\* gl.isContextLost()
isContextLost(S) == S.lost

\* an object of a lost or replaced context is invalid: calls that use it are dropped
Valid(S, h) == ~S.lost /\ h # NULL /\ h = S.gen

\* gl.create*(): null while the context is lost
Create(S) == IF S.lost THEN NULL ELSE S.gen

\* framebuffer 0 is the canvas, 1..3 are the pool's slots
TargetOk(S, tgt) == ~S.lost /\ (tgt = 0 \/ Valid(S, S.fboPool[tgt].fbo))

WriteTarget(S0, tgt, out) ==
  Only({ IF ~TargetOk(S, tgt) THEN S
         ELSE IF tgt = 0 THEN [S EXCEPT !.cpx = out]
         ELSE [S EXCEPT !.fboPool[tgt].px = TargetTexture(out)] : S \in {S0} })

\* gl.bindFramebuffer(gl.FRAMEBUFFER, ...)
bindFramebuffer(S, tgt) == IF tgt = 0 THEN S ELSE [S EXCEPT !.fboBinds = @ + 1]

\* gl.clear(gl.COLOR_BUFFER_BIT) with clearColor(0.067, 0.067, 0.067, 1.0)
clear(S, tgt) == WriteTarget(S, tgt, Cleared)

\* ------------------------------------------------------------- construction
\* env: the driver's verdict on each compile and link initShaders may attempt
Envs ==
  { e \in [gl : BOOLEAN, vs : BOOLEAN, fsFull : BOOLEAN, linkFull : BOOLEAN,
           fsFallback : BOOLEAN, linkFallback : BOOLEAN,
           fsBlend : BOOLEAN, fsDraw : BOOLEAN] :
      \* verdicts no call ever asks for are fixed to TRUE
      /\ (~e.gl => e.vs)
      /\ (~e.vs => e.fsFull /\ e.fsFallback)
      /\ (~e.fsFull => e.linkFull)
      /\ (~e.fsFallback => e.linkFallback)
      /\ ((e.fsFull /\ e.linkFull) => (e.fsFallback /\ e.linkFallback))
      /\ LET prog == e.gl /\ e.vs /\ ((e.fsFull /\ e.linkFull) \/ (e.fsFallback /\ e.linkFallback))
         IN  ~prog => (e.fsBlend /\ e.fsDraw) }

\* initShaders that forgets to record the variant on the fallback path
initShadersFlagUnset(e, h) ==
  IF ~e.vs
  THEN [program |-> NoProgram, usingFallbackShader |-> FALSE, log |-> <<"vertex">>]
  ELSE IF e.fsFull /\ e.linkFull
  THEN [program |-> [h |-> h, src |-> "full"], usingFallbackShader |-> FALSE,
        log |-> <<"vertex", "full", "linkFull">>]
  ELSE LET log1 == IF e.fsFull THEN <<"vertex", "full", "linkFull">>
                   ELSE <<"vertex", "full">>
       IN  IF ~e.vs \/ ~e.fsFallback
           THEN [program |-> NoProgram, usingFallbackShader |-> FALSE,
                 log |-> log1 \o <<"vertex", "fallback">>]
           ELSE IF ~e.linkFallback
           THEN [program |-> NoProgram, usingFallbackShader |-> FALSE,
                 log |-> log1 \o <<"vertex", "fallback", "linkFallback">>]
           ELSE [program |-> [h |-> h, src |-> "fallback"], usingFallbackShader |-> FALSE,
                 log |-> log1 \o <<"vertex", "fallback", "linkFallback">>]

initShaders(e, h) ==
  IF ~e.vs
  THEN [program |-> NoProgram, usingFallbackShader |-> FALSE, log |-> <<"vertex">>]
  ELSE IF e.fsFull /\ e.linkFull
  THEN [program |-> [h |-> h, src |-> "full"], usingFallbackShader |-> FALSE,
        log |-> <<"vertex", "full", "linkFull">>]
  ELSE LET log1 == IF e.fsFull THEN <<"vertex", "full", "linkFull">>
                   ELSE <<"vertex", "full">>
       IN  IF ~e.vs \/ ~e.fsFallback
           THEN [program |-> NoProgram, usingFallbackShader |-> FALSE,
                 log |-> log1 \o <<"vertex", "fallback">>]
           ELSE IF ~e.linkFallback
           THEN [program |-> NoProgram, usingFallbackShader |-> FALSE,
                 log |-> log1 \o <<"vertex", "fallback", "linkFallback">>]
           ELSE [program |-> [h |-> h, src |-> "fallback"], usingFallbackShader |-> TRUE,
                 log |-> log1 \o <<"vertex", "fallback", "linkFallback">>]

\* initGeometry: if (!this.program) return; this.vertexBuffer = gl.createBuffer()
initGeometry(program, h) == IF program = NoProgram THEN NULL ELSE h

\* the image and LUT textures alive in the context
NoTextures == [image |-> 0, lut |-> 0]

NeutralUniforms == [exposure |-> 0, contrast |-> 0, curveEnabled |-> FALSE]

NewRenderer ==
  [ program |-> NoProgram, usingFallbackShader |-> FALSE,
    texture |-> NULL, curveTexture |-> NULL, imageLoaded |-> FALSE, image |-> 0,
    vertexBuffer |-> NULL, blendProgram |-> NULL, drawProgram |-> NULL,
    fboPool |-> <<>>, fboWidth |-> 0, fboHeight |-> 0 ]

NoExport == [w |-> 0, h |-> 0, origW |-> 0, origH |-> 0,
             dataUrl |-> [width |-> 0, height |-> 0, px |-> Blank]]

NoCall == [op |-> "none", edits |-> DEFAULT_EDITS, masks |-> <<>>,
           draws |-> 0, allocs |-> 0, fboBinds |-> 0, threw |-> FALSE, drew |-> FALSE,
           poolBuilds |-> 0, passes |-> FALSE, passLog |-> <<>>, deletes |-> 0,
           poolFits |-> FALSE,
           missing |-> FALSE, changed |-> FALSE, wasLost |-> FALSE, export |-> NoExport]

\* a constructor that returns an unusable renderer instead of throwing
ConstructorNoThrow(e, h) ==
  IF ~e.gl
  THEN [threw |-> FALSE, log |-> <<>>, fields |-> NewRenderer]
  ELSE LET sh == initShaders(e, h)
       IN  [threw |-> FALSE, log |-> sh.log,
            fields |-> [NewRenderer EXCEPT !.program = sh.program,
                          !.usingFallbackShader = sh.usingFallbackShader,
                          !.vertexBuffer = initGeometry(sh.program, h)]]

\* constructor(canvas): throws 'WebGL not supported' when getContext yields nothing
Constructor(e, h) ==
  IF ~e.gl
  THEN [threw |-> TRUE, log |-> <<>>, fields |-> NewRenderer]
  ELSE LET sh == initShaders(e, h)
       IN  [threw |-> FALSE, log |-> sh.log,
            fields |-> [NewRenderer EXCEPT !.program = sh.program,
                          !.usingFallbackShader = sh.usingFallbackShader,
                          !.vertexBuffer = initGeometry(sh.program, h)]]

\* isReady(): this.imageLoaded && !!this.program
isReady == rdr.imageLoaded /\ rdr.program # NoProgram

\* isContextValid(): gl && !gl.isContextLost()
isContextValid == ctor = "ok" /\ ~gl.lost

\* ------------------------------------------------------------ image and LUT
\* if (tex) gl.deleteTexture(tex): frees a texture of the present context
DeleteTexture(S, kind, tex) ==
  IF Valid(S, tex) THEN [S EXCEPT !.live[kind] = @ - 1, !.deletes = @ + 1] ELSE S

\* gl.createTexture(): null while the context is lost
CreateTexture(S, kind) ==
  IF S.lost THEN [S EXCEPT !.allocs = @ + 1]
  ELSE [S EXCEPT !.allocs = @ + 1, !.live[kind] = @ + 1]

\* initCurveLUT: delete the old LUT texture, create one, upload the identity
initCurveLUT(S0) ==
  Only({ [S EXCEPT !.curveTexture = Create(S),
                   !.lutCurve = IF S.lost THEN @ ELSE IdentityCurve] :
         S \in {CreateTexture(DeleteTexture(S0, "lut", S0.curveTexture), "lut")} })

\* a loadImage that drops the old texture without deleting it
loadImageNoDelete(S0, img) ==
  Only({ initCurveLUT([S EXCEPT !.texture = Create(S),
                                !.texData = IF S.lost THEN @ ELSE img,
                                !.image = img, !.imageLoaded = TRUE]) :
         S \in {CreateTexture(S0, "image")} })

\* loadImage(img)
loadImage(S0, img) ==
  Only({ initCurveLUT([S EXCEPT !.texture = Create(S),
                                !.texData = IF S.lost THEN @ ELSE img,
                                !.image = img, !.imageLoaded = TRUE]) :
         S \in {CreateTexture(DeleteTexture(S0, "image", S0.texture), "image")} })

\* updateCurveLUT(points): if (!this.curveTexture) return; build; texImage2D
updateCurveLUT(S0, points) ==
  Only({ IF S.curveTexture = NULL THEN S
         ELSE IF ~Valid(S, S.curveTexture) THEN S
         ELSE [S EXCEPT !.lutCurve = points] : S \in {S0} })

\* -------------------------------------------------------------- render passes
\* the uniforms renderWithEdits sets on the adjustment program
UniformsOf(edits) ==
  [exposure |-> edits.exposure, contrast |-> edits.contrast,
   curveEnabled |-> hasCustomCurve(edits.toneCurve)]

\* uniforms where u_curveEnabled is only ever switched on
SetUniformsStickyCurve(S0, edits) ==
  Only({ [S EXCEPT !.uniforms = [UniformsOf(edits) EXCEPT
                                   !.curveEnabled = @ \/ S.uniforms.curveEnabled]] :
         S \in {S0} })

SetUniforms(S, edits) == [S EXCEPT !.uniforms = UniformsOf(edits)]

AdjustRow(S, y) ==
  IF S.program.src = "full"
  THEN FRAGMENT_SHADER(ImagePx(S.texData)[y], S.uniforms, LUTS[S.lutCurve])
  ELSE FALLBACK_FRAGMENT_SHADER(ImagePx(S.texData)[y], S.uniforms)

\* a draw call: the pool slots whose textures it samples (the image, the LUT
\* and a mask's texture are no pool slots) and the target it writes
Pass(S, program, reads, writes) ==
  [S EXCEPT !.passLog = Append(@, [program |-> program, reads |-> reads, writes |-> writes])]

\* the draw call of renderWithEdits on the program, buffer and textures bound
DrawAdjusted(S0, tgt) ==
  Only({ IF Valid(S, S.program.h) /\ TargetOk(S, tgt) /\ Valid(S, S.texture)
         THEN [WriteTarget(S, tgt, Raster([y \in Rows |-> AdjustRow(S, y)]))
                 EXCEPT !.drew = (tgt = 0)]
         ELSE S : S \in {Pass(S0, "adjust", {}, tgt)} })

\* renderWithEdits(edits): to the bound framebuffer tgt
renderWithEdits(S0, edits, tgt) ==
  Only({ IF S.program = NoProgram \/ ~S.imageLoaded THEN S
         ELSE Only({ DrawAdjusted([(IF Valid(S2, S2.program.h)
                                    THEN SetUniforms(S2, edits) ELSE S2)
                                     EXCEPT !.draws = @ + 1], tgt) :
                     S2 \in {IF hasCustomCurve(edits.toneCurve)
                             THEN updateCurveLUT(clear(S, tgt), edits.toneCurve)
                             ELSE clear(S, tgt)} }) :
         S \in {S0} })

\* a render that links a fallback program on demand when none exists
renderRetriesCompile(S0, edits) ==
  Only({ IF S.program = NoProgram THEN S
         ELSE IF ~S.imageLoaded THEN S
         ELSE IF isContextLost(S) THEN S
         ELSE renderWithEdits(bindFramebuffer(S, 0), edits, 0) :
         S \in {IF S0.program = NoProgram /\ ~S0.lost
                THEN [S0 EXCEPT !.program = [h |-> S0.gen, src |-> "fallback"],
                                !.usingFallbackShader = TRUE, !.allocs = @ + 1]
                ELSE S0} })

\* render(edits)
render(S0, edits) ==
  Only({ IF S.program = NoProgram THEN S
         ELSE IF ~S.imageLoaded THEN S
         ELSE IF isContextLost(S) THEN S
         ELSE renderWithEdits(bindFramebuffer(S, 0), edits, 0) : S \in {S0} })

\* ---------------------------------------------------------- mask compositing
\* compileShader on a lost context: createShader returns null and
\* shaderSource(null, ...) raises a TypeError.
\* ensureBlendProgram / ensureDrawProgram: ok is the driver's verdict
ensureBlendProgram(S0, ok) ==
  Only({ IF S.blendProgram # NULL THEN S
         ELSE IF S.lost THEN [S EXCEPT !.threw = TRUE]
         ELSE IF ok THEN [S EXCEPT !.blendProgram = S.gen, !.allocs = @ + 1]
         ELSE S : S \in {S0} })

ensureDrawProgram(S0, ok) ==
  Only({ IF S.drawProgram # NULL THEN S
         ELSE IF S.lost THEN [S EXCEPT !.threw = TRUE]
         ELSE IF ok THEN [S EXCEPT !.drawProgram = S.gen, !.allocs = @ + 1]
         ELSE S : S \in {S0} })

\* createFBO(w, h): a texture and a framebuffer; the framebuffer is bound once
createFBO(S) == [fbo |-> Create(S), tex |-> Create(S), px |-> Blank]

\* destroyFBOs()
destroyFBOs(S) == [S EXCEPT !.fboPool = <<>>, !.fboWidth = 0, !.fboHeight = 0]

\* the pool after POOL_SIZE pushes of createFBO
RECURSIVE NewPool(_, _)
NewPool(S, n) == IF n = 0 THEN <<>> ELSE NewPool(S, n - 1) \o <<createFBO(S)>>

\* ensureFBOs that only looks at the number of targets, not at their size
ensureFBOsLengthOnly(S0) ==
  Only({ IF Len(S.fboPool) = POOL_SIZE THEN S
         ELSE [destroyFBOs(S) EXCEPT !.fboWidth = S.cw, !.fboHeight = S.ch,
                                     !.fboPool = NewPool(S, POOL_SIZE),
                                     !.allocs = @ + 2 * POOL_SIZE,
                                     !.fboBinds = @ + POOL_SIZE,
                                     !.poolBuilds = @ + 1] : S \in {S0} })

\* ensureFBOs()
ensureFBOs(S0) ==
  Only({ IF S.cw = S.fboWidth /\ S.ch = S.fboHeight /\ Len(S.fboPool) = POOL_SIZE THEN S
         ELSE [destroyFBOs(S) EXCEPT !.fboWidth = S.cw, !.fboHeight = S.ch,
                                     !.fboPool = NewPool(S, POOL_SIZE),
                                     !.allocs = @ + 2 * POOL_SIZE,
                                     !.fboBinds = @ + POOL_SIZE,
                                     !.poolBuilds = @ + 1] : S \in {S0} })

\* combineEdits works on objects: the heap below holds the global edits, its
\* sharpening object (the one nested object combineEdits writes to; the other
\* nested objects are only copied and are kept as values), the mask's
\* adjustments, and the objects the call creates.  A sharpening field holds
\* the name of the heap cell of its object.
NoObject == <<>>

HeapOf(global, maskAdj) ==
  [global |-> IF "sharpening" \in DOMAIN global
              THEN [global EXCEPT !.sharpening = "globalSharpening"] ELSE global,
   globalSharpening |-> Field(global, "sharpening", NoObject),
   maskAdj |-> maskAdj, combined |-> NoObject, combinedSharpening |-> NoObject]

\* the value of the edits object in cell name
ValueAt(heap, name) ==
  IF "sharpening" \in DOMAIN heap[name]
  THEN [heap[name] EXCEPT !.sharpening = heap[heap[name].sharpening]]
  ELSE heap[name]

\* a copy of the top-level object alone: nested objects stay shared
JsonCloneShallow(heap) == [heap EXCEPT !.combined = heap.global]

\* combined = JSON.parse(JSON.stringify(global)): new objects at every level
JsonClone(heap) ==
  [heap EXCEPT !.combined = IF "sharpening" \in DOMAIN heap.global
                            THEN [heap.global EXCEPT !.sharpening = "combinedSharpening"]
                            ELSE heap.global,
               !.combinedSharpening = heap.globalSharpening]

AddKeys == <<"exposure", "contrast", "highlights", "shadows", "whites", "blacks",
             "temperature", "tint", "clarity", "dehaze", "saturation">>

\* add(key) for every key: if (maskAdj[key]) combined[key] = (combined[key] || 0) + maskAdj[key]
AddAll(combined, maskAdj) ==
  Spread(combined,
         [key \in {AddKeys[i] : i \in {j \in 1..Len(AddKeys) : Field(maskAdj, AddKeys[j], 0) # 0}}
            |-> Field(combined, key, 0) + maskAdj[key]])

\* if (maskAdj.sharpness) { if (!combined.sharpening) combined.sharpening = {};
\*   combined.sharpening.amount = (combined.sharpening?.amount || 0) + maskAdj.sharpness; }
AddSharpness(heap0) ==
  Only({ IF Field(heap.maskAdj, "sharpness", 0) = 0 THEN heap
         ELSE Only({ [h EXCEPT ![h.combined.sharpening] =
                        Spread(@, [amount |-> Field(@, "amount", 0) + h.maskAdj.sharpness])] :
                     h \in {IF "sharpening" \in DOMAIN heap.combined THEN heap
                            ELSE [heap EXCEPT
                                    !.combined = Spread(@, [sharpening |-> "combinedSharpening"]),
                                    !.combinedSharpening = NoObject]} }) :
         heap \in {heap0} })

\* combineEdits on the heap: what every object holds when the call returns
combineEditsOn(heap0) ==
  Only({ AddSharpness([heap EXCEPT !.combined = AddAll(@, heap.maskAdj)]) :
         heap \in {JsonClone(heap0)} })

\* combineEdits(global, maskAdj): a deep copy of global with the deltas added
combineEdits(global, maskAdj) ==
  ValueAt(combineEditsOn(HeapOf(global, maskAdj)), "combined")

\* blendPass(baseTex, layerTex, maskTex) into framebuffer dst
blendPass(S0, src, layer, maskTex, alpha, dst) ==
  Only({ IF /\ Valid(S, S.blendProgram) /\ TargetOk(S, dst)
            /\ Valid(S, S.fboPool[src].tex) /\ Valid(S, S.fboPool[layer].tex)
            /\ Valid(S, maskTex)
         THEN WriteTarget([S EXCEPT !.draws = @ + 1], dst,
                Raster([y \in Rows |-> BLEND_FRAGMENT_SHADER(S.fboPool[src].px[y],
                                                             S.fboPool[layer].px[y],
                                                             alpha[y])]))
         ELSE [S EXCEPT !.draws = @ + 1] : S \in {Pass(S0, "blend", {src, layer}, dst)} })

\* drawTexture(tex) to the canvas
drawTexture(S0, src) ==
  Only({ IF Valid(S, S.drawProgram) /\ TargetOk(S, 0) /\ Valid(S, S.fboPool[src].tex)
         THEN [WriteTarget([S EXCEPT !.draws = @ + 1], 0,
                 Raster([y \in Rows |-> DRAW_FRAGMENT_SHADER(S.fboPool[src].px[y])]))
                 EXCEPT !.drew = TRUE]
         ELSE [S EXCEPT !.draws = @ + 1] : S \in {Pass(S0, "draw", {src}, 0)} })

\* masks.forEach((m, i) => { if (m.enabled && maskCanvases[i]) enabledIdxs.push(i) })
RECURSIVE EnabledFrom(_, _)
EnabledFrom(masks, i) ==
  IF i > Len(masks) THEN <<>>
  ELSE IF masks[i].enabled /\ masks[i].canvas # NoCanvas
  THEN <<i>> \o EnabledFrom(masks, i + 1)
  ELSE EnabledFrom(masks, i + 1)

enabledIdxs(masks) == EnabledFrom(masks, 1)

\* an iteration that blends into the target it reads the accumulation from
MaskStepInPlace(S0, edits, mask, src, dst) ==
  Only({ blendPass(clear(bindFramebuffer([S1 EXCEPT !.allocs = @ + 1], src), src),
                   src, 3, Create(S1), mask.canvas, src) :
         S1 \in {renderWithEdits(bindFramebuffer(S0, 3),
                                 combineEdits(edits, mask.adjustments), 3)} })

\* one iteration of the loop over enabledIdxs; maskLayer is slot 3
MaskStep(S0, edits, mask, src, dst) ==
  Only({ blendPass(clear(bindFramebuffer([S1 EXCEPT !.allocs = @ + 1], dst), dst),
                   src, 3, Create(S1), mask.canvas, dst) :
         S1 \in {renderWithEdits(bindFramebuffer(S0, 3),
                                 combineEdits(edits, mask.adjustments), 3)} })

\* the loop: returns the state and the slot holding the accumulated result
RECURSIVE MaskLoop(_, _, _, _, _, _)
MaskLoop(S0, edits, masks, idxs0, src0, dst0) ==
  Only({ IF Len(idxs) = 0 THEN [S |-> S, src |-> src]
         ELSE MaskLoop(MaskStep(S, edits, masks[Head(idxs)], src, dst),
                       edits, masks, Tail(idxs), dst, src) :
         S \in {S0}, idxs \in {idxs0}, src \in {src0}, dst \in {dst0} })

\* the passes of renderWithMasks once pool and programs are there
CompositePasses(S0, edits, masks) ==
  Only({ drawTexture(clear(L.S, 0), L.src) :
         L \in {MaskLoop(renderWithEdits(bindFramebuffer([S0 EXCEPT !.passes = TRUE], 1),
                                         edits, 1),
                         edits, masks, enabledIdxs(masks), 1, 2)} })

\* the set-up followed by the passes whether or not both programs exist
SetUpAndCompositeNoFallback(S0, edits, masks, blendOk, drawOk) ==
  Only({ Only({ IF S3.threw THEN S3 ELSE CompositePasses(S3, edits, masks) :
                S3 \in {IF S2.threw THEN S2 ELSE ensureDrawProgram(S2, drawOk)} }) :
         S2 \in {ensureBlendProgram(ensureFBOs(S0), blendOk)} })

\* ensureFBOs(); ensureBlendProgram(); ensureDrawProgram(); then the fallback
\* to render(edits) or the passes
SetUpAndComposite(S0, edits, masks, blendOk, drawOk) ==
  Only({ Only({ IF S3.threw THEN S3
                ELSE IF S3.blendProgram = NULL \/ S3.drawProgram = NULL
                        \/ Len(S3.fboPool) < POOL_SIZE
                THEN render(S3, edits)
                ELSE CompositePasses(S3, edits, masks) :
                S3 \in {IF S2.threw THEN S2 ELSE ensureDrawProgram(S2, drawOk)} }) :
         S2 \in {ensureBlendProgram(ensureFBOs(S0), blendOk)} })

\* renderWithMasks without its fast path: the pool is set up and the passes run
\* even when no mask is enabled
renderWithMasksNoFastPath(S0, edits, masks, blendOk, drawOk) ==
  Only({ IF S.program = NoProgram \/ ~S.imageLoaded THEN S
         ELSE SetUpAndComposite(S, edits, masks, blendOk, drawOk) : S \in {S0} })

\* renderWithMasks(edits, masks, maskCanvases); a mask carries its canvas
renderWithMasks(S0, edits, masks, blendOk, drawOk) ==
  Only({ IF S.program = NoProgram \/ ~S.imageLoaded THEN S
         ELSE IF Len(enabledIdxs(masks)) = 0 THEN render(S, edits)
         ELSE SetUpAndComposite(S, edits, masks, blendOk, drawOk) : S \in {S0} })

\* this.canvas.width = w; this.canvas.height = h
resize(S0, w, h) ==
  Only({ IF w = S.cw /\ h = S.ch THEN S ELSE [S EXCEPT !.cw = w, !.ch = h, !.cpx = Blank] :
         S \in {S0} })

\* renderForExport that leaves the canvas at the export size
renderForExportNoRestore(S0, edits, width, height) ==
  Only({ [S |-> S1, dataUrl |-> CanvasOf(S1)] :
         S1 \in {render(resize(S0, width, height), edits)} })

\* renderForExport(edits, width, height): returns the state and the capture
renderForExport(S0, edits, width, height) ==
  Only({ Only({ [S |-> render(resize(S1, S.cw, S.ch), edits), dataUrl |-> CanvasOf(S1)] :
                S1 \in {render(resize(S, width, height), edits)} }) :
         S \in {S0} })

\* ------------------------------------------------------------------ actions
NoCalc == [fn |-> "none", arg |-> <<>>, out |-> <<>>]

\* no completion of an image load has run
NoneFired == [run |-> 0, called |-> FALSE]

\* loads holds one entry per run of the image loading effect: its path, how
\* far its load has come, and its cancelled flag; fired names the run whose
\* completion ran last and tells whether it called the renderer
NewView == [rendererRef |-> "unset", loadedImage |-> 0, imageLoaded |-> FALSE,
            edits |-> DEFAULT_EDITS, masks |-> <<>>,
            activeFilePath |-> 0, loads |-> <<>>, unmounted |-> FALSE,
            fired |-> NoneFired]

\* before new WebGLImageRenderer(canvas)
InitRenderer ==
  /\ env \in Envs
  /\ ctor = "new"
  /\ shaderLog = <<>>
  /\ rdr = NewRenderer
  /\ \E sz \in CanvasSizes : canvas = [width |-> sz[1], height |-> sz[2], px |-> Blank]
  /\ gl = [lost |-> FALSE, gen |-> 1, texData |-> 0, lutCurve |-> IdentityCurve,
           uniforms |-> NeutralUniforms, live |-> NoTextures]
  /\ last = NoCall
  /\ view = NewView

\* create<EditState>: the store before any operation
NewStore == [edits |-> DEFAULT_EDITS, history |-> <<>>, historyIndex |-> -1, isDirty |-> FALSE]

Init == InitRenderer /\ calc = NoCalc /\ store = NewStore

\* a render prerequisite is missing: no program, no image, or the context is lost
Missing == rdr.program = NoProgram \/ ~rdr.imageLoaded \/ gl.lost

\* the pool is complete and was built for the canvas's present size
PoolFits ==
  /\ Len(rdr.fboPool) = POOL_SIZE
  /\ rdr.fboWidth = canvas.width /\ rdr.fboHeight = canvas.height

Call(op, edits, masks, S) ==
  [op |-> op, edits |-> edits, masks |-> masks,
   draws |-> S.draws, allocs |-> S.allocs, fboBinds |-> S.fboBinds,
   threw |-> S.threw, drew |-> S.drew,
   poolBuilds |-> S.poolBuilds, passes |-> S.passes, passLog |-> S.passLog,
   deletes |-> S.deletes,
   poolFits |-> PoolFits,
   missing |-> Missing, changed |-> (Fields(S) # rdr), wasLost |-> gl.lost,
   export |-> NoExport]

Commit(S) ==
  /\ rdr' = Fields(S)
  /\ canvas' = CanvasOf(S)
  /\ gl' = ContextOf(S)

\* new WebGLImageRenderer(canvas)
Construct ==
  /\ ctor = "new"
  /\ \E c \in {Constructor(env, gl.gen)} :
       /\ ctor' = IF c.threw THEN "threw" ELSE "ok"
       /\ shaderLog' = c.log
       /\ rdr' = c.fields
  /\ last' = [NoCall EXCEPT !.op = "construct"]
  /\ UNCHANGED <<store, calc, env, canvas, gl, view>>

LoadImage(img) ==
  /\ ctor = "ok"
  /\ \E S \in {loadImage(Pack, img)} :
         Commit(S) /\ last' = Call("loadImage", DEFAULT_EDITS, <<>>, S)
  /\ UNCHANGED <<store, calc, env, ctor, shaderLog, view>>

Render(edits) ==
  /\ ctor = "ok"
  /\ \E S \in {render(Pack, edits)} :
         Commit(S) /\ last' = Call("render", edits, <<>>, S)
  /\ UNCHANGED <<store, calc, env, ctor, shaderLog, view>>

RenderWithMasks(edits, masks) ==
  /\ ctor = "ok"
  /\ \E S \in {renderWithMasks(Pack, edits, masks, env.fsBlend, env.fsDraw)} :
         Commit(S) /\ last' = Call("renderWithMasks", edits, masks, S)
  /\ UNCHANGED <<store, calc, env, ctor, shaderLog, view>>

RenderForExport(edits, w, h) ==
  /\ ctor = "ok"
  /\ \E R \in {renderForExport(Pack, edits, w, h)} :
         /\ Commit(R.S)
         /\ last' = [Call("renderForExport", edits, <<>>, R.S) EXCEPT
                        !.export = [w |-> w, h |-> h,
                                    origW |-> canvas.width, origH |-> canvas.height,
                                    dataUrl |-> R.dataUrl]]
  /\ UNCHANGED <<store, calc, env, ctor, shaderLog, view>>

\* sizeCanvas: the container changed size
ResizeCanvas(w, h) ==
  /\ w # canvas.width \/ h # canvas.height
  /\ canvas' = [width |-> w, height |-> h, px |-> Blank]
  /\ last' = [NoCall EXCEPT !.op = "resize"]
  /\ UNCHANGED <<store, calc, env, ctor, shaderLog, rdr, gl, view>>

\* the browser takes the GL context away
ContextLost ==
  /\ ctor = "ok"
  /\ ~gl.lost
  /\ gl' = [gl EXCEPT !.lost = TRUE, !.live = NoTextures]
  /\ canvas' = [canvas EXCEPT !.px = Blank]
  /\ last' = [NoCall EXCEPT !.op = "contextLost"]
  /\ UNCHANGED <<store, calc, env, ctor, shaderLog, rdr, view>>

\* the browser restores it: a fresh context, every earlier object invalid
ContextRestored ==
  /\ gl.lost
  /\ gl.gen < MaxCtxGen
  /\ gl' = [lost |-> FALSE, gen |-> gl.gen + 1, texData |-> 0, lutCurve |-> IdentityCurve,
            uniforms |-> NeutralUniforms, live |-> NoTextures]
  /\ last' = [NoCall EXCEPT !.op = "contextRestored"]
  /\ UNCHANGED <<store, calc, env, ctor, shaderLog, rdr, canvas, view>>

\* The renderer's interface with one image per renderer, on a platform whose
\* blend and draw shaders compile and whose link steps succeed.
CoreEnv == env.gl /\ env.vs /\ env.linkFull /\ env.linkFallback /\ env.fsFallback
           /\ env.fsBlend /\ env.fsDraw

FewEdits == {DEFAULT_EDITS, Edit(0, 0, CustomCurve)}
FewMaskLists == {ms \in MaskLists : Len(ms) <= 1}

Next ==
  \/ Construct
  \/ \E img \in Images : ~rdr.imageLoaded /\ LoadImage(img)
  \/ \E e \in EditSet : Render(e)
  \/ \E e \in EditSet, ms \in FewMaskLists : RenderWithMasks(e, ms)
  \/ \E e \in EditSet, sz \in CanvasSizes : RenderForExport(e, sz[1], sz[2])
  \/ \E sz \in CanvasSizes : ResizeCanvas(sz[1], sz[2])

InitCore == Init /\ CoreEnv

Spec == InitCore /\ [][Next]_vars

\* Mask compositing over every mask list up to MaxMasks.
NextMasks ==
  \/ Construct
  \/ LoadImage(1)
  \/ \E e \in FewEdits : Render(e)
  \/ \E e \in FewEdits, ms \in MaskLists : RenderWithMasks(e, ms)

\* the full-feature program is the active one
InitMasks == InitCore /\ env.fsFull

SpecMasks == InitMasks /\ [][NextMasks]_vars

\* Masks whose alpha is the same at every pixel, alone or after a disabled mask.
AlphaZero == Raster([y \in Rows |-> 0])

UniformMasks == { Mask(Adj(1, 0), TRUE, AlphaFull), Mask(Adj(1, 0), TRUE, AlphaZero),
                  Mask(Adj(-1, 20), TRUE, AlphaFull), Mask(Adj(-1, 20), TRUE, AlphaZero) }

UniformMaskLists ==
  {<<m>> : m \in UniformMasks}
    \cup {<<Mask(Adj(1, 0), FALSE, AlphaFull), m>> : m \in UniformMasks}

NextUniform ==
  \/ Construct
  \/ \E img \in Images : ~rdr.imageLoaded /\ LoadImage(img)
  \/ \E e \in EditSet : Render(e)
  \/ \E e \in EditSet, ms \in UniformMaskLists : RenderWithMasks(e, ms)

SpecUniform == InitCore /\ [][NextUniform]_vars

\* Pairs of enabled masks over a graded and a flat image.
OverlapMasks == { Mask(Adj(1, 0), TRUE, AlphaFull), Mask(Adj(-1, 0), TRUE, AlphaTop),
                  Mask(Adj(-1, 20), TRUE, AlphaHalf) }

OverlapLists == {ms \in {<<m1, m2>> : m1 \in OverlapMasks, m2 \in OverlapMasks} : ms[1] # ms[2]}

NextOverlap ==
  \/ Construct
  \/ \E img \in {1, 3} : ~rdr.imageLoaded /\ LoadImage(img)
  \/ \E e \in EditSet : Render(e)
  \/ \E e \in EditSet, ms \in OverlapLists : RenderWithMasks(e, ms)

SpecOverlap == InitCore /\ [][NextOverlap]_vars

\* ------------------------------------------------ the curve LUT builder alone
\* control points as the tone curve editor stores them: integers 0..255
LutGrid == {0, 128, 255}

\* lists of two and three points with increasing x and non-decreasing y
MonotoneCurves ==
  { c \in {<<p, q>> : p \in LutGrid \X LutGrid, q \in LutGrid \X LutGrid} :
      c[1][1] < c[2][1] /\ c[1][2] <= c[2][2] }
  \cup { c \in {<<<<0, y1>>, <<128, y2>>, <<255, y3>>>> :
                   y1 \in LutGrid, y2 \in LutGrid, y3 \in LutGrid} :
            c[1][2] <= c[2][2] /\ c[2][2] <= c[3][2] }

CurveInputs ==
  MonotoneCurves
    \cup { <<>>, <<<<128, 128>>>>, DefaultCurve, CustomCurve, SteepCurve,
           <<<<255, 255>>, <<0, 0>>>>, <<<<0, 255>>, <<255, 0>>>> }

InitLUT ==
  /\ InitRenderer /\ store = NewStore /\ CoreEnv /\ env.fsFull /\ canvas.width = canvas.height
  /\ calc \in {[fn |-> "updateCurveLUT", arg |-> c, out |-> <<>>] : c \in CurveInputs}

\* updateCurveLUT(points) on the renderer's LUT texture; out is the table uploaded
UpdateCurveLUT ==
  /\ ctor = "ok"
  /\ calc.fn = "updateCurveLUT"
  /\ \E S \in {updateCurveLUT(Pack, calc.arg)} :
       /\ Commit(S)
       /\ last' = Call("updateCurveLUT", DEFAULT_EDITS, <<>>, S)
       /\ calc' = [calc EXCEPT !.out = IF S.lutCurve = calc.arg /\ Valid(S, S.curveTexture)
                                       THEN BuildLUT(calc.arg) ELSE @]
  /\ UNCHANGED <<store, env, ctor, shaderLog, view>>

NextLUT ==
  \/ Construct
  \/ ~rdr.imageLoaded /\ LoadImage(1)
  \/ UpdateCurveLUT

SpecLUT == InitLUT /\ [][NextLUT]_vars

\* Construction on every platform, followed by calls with few inputs.

NextInit ==
  \/ Construct
  \/ LoadImage(1)
  \/ \E e \in FewEdits : Render(e)
  \/ \E e \in FewEdits, ms \in FewMaskLists : RenderWithMasks(e, ms)
  \/ \E e \in FewEdits, sz \in CanvasSizes : RenderForExport(e, sz[1], sz[2])

SpecInit == Init /\ [][NextInit]_vars

\* The same interface while the browser may take the context away and restore it.
NextCtx ==
  \/ Construct
  \/ LoadImage(1)
  \/ \E e \in FewEdits : Render(e)
  \/ \E e \in FewEdits, ms \in FewMaskLists : RenderWithMasks(e, ms)
  \/ \E sz \in CanvasSizes : ResizeCanvas(sz[1], sz[2])
  \/ ContextLost
  \/ ContextRestored

InitCtx == Init /\ env.gl /\ env.vs /\ env.fsFull /\ env.linkFull

SpecCtx == InitCtx /\ [][NextCtx]_vars

\* ------------------------------------------------- DevelopView, ExportDialog
\* the masks the mask store can hold: MaskRasterizer.rasterize gives each a canvas
StoreMaskLists == {ms \in FewMaskLists : \A i \in 1..Len(ms) : ms[i].canvas # NoCanvas}

\* masks.filter((m) => m.enabled)
RECURSIVE FilterEnabled(_)
FilterEnabled(ms) ==
  IF Len(ms) = 0 THEN <<>>
  ELSE IF Head(ms).enabled THEN <<Head(ms)>> \o FilterEnabled(Tail(ms))
  ELSE FilterEnabled(Tail(ms))

\* the re-render effect on [edits, masks, imageLoaded]
RerenderEffect(S, v) ==
  IF ~v.imageLoaded \/ v.rendererRef # "set" \/ v.loadedImage = 0 THEN S
  ELSE IF Len(FilterEnabled(v.masks)) = 0 THEN render(S, v.edits)
  ELSE renderWithMasks(S, v.edits, FilterEnabled(v.masks), env.fsBlend, env.fsDraw)

\* the renderer lifecycle effect: try { new WebGLImageRenderer } catch { rendererRef = null }
Mount ==
  /\ view.rendererRef = "unset"
  /\ ctor = "new"
  /\ \E c \in {Constructor(env, gl.gen)} :
       /\ ctor' = IF c.threw THEN "threw" ELSE "ok"
       /\ shaderLog' = c.log
       /\ rdr' = c.fields
       /\ view' = [view EXCEPT !.rendererRef = IF c.threw THEN "null" ELSE "set"]
  /\ last' = [NoCall EXCEPT !.op = "mount"]
  /\ UNCHANGED <<store, calc, env, canvas, gl>>

\* img.onload of the image loading effect, the animation-frame re-render and
\* the re-render effect that setImageLoaded(true) triggers
OnImageLoad(img) ==
  /\ view.rendererRef # "unset"
  /\ view.loadedImage = 0
  /\ \E v \in {[view EXCEPT !.loadedImage = img, !.imageLoaded = TRUE]} :
       /\ view' = v
       /\ IF view.rendererRef = "set"
          THEN \E S \in {RerenderEffect(render(render(loadImage(Pack, img), view.edits),
                                                view.edits), v)} :
                 Commit(S) /\ last' = Call("onImageLoad", view.edits, view.masks, S)
          ELSE /\ last' = [NoCall EXCEPT !.op = "onImageLoad"]
               /\ UNCHANGED <<rdr, canvas, gl>>
  /\ UNCHANGED <<store, calc, env, ctor, shaderLog>>

\* an edit or mask store update, followed by the re-render effect
StoreChange(e, ms) ==
  /\ view.rendererRef # "unset"
  /\ e # view.edits \/ ms # view.masks
  /\ \E v \in {[view EXCEPT !.edits = e, !.masks = ms]} :
       /\ view' = v
       /\ IF ctor = "ok"
          THEN \E S \in {RerenderEffect(Pack, v)} :
                 Commit(S) /\ last' = Call("storeChange", e, ms, S)
          ELSE /\ last' = [NoCall EXCEPT !.op = "storeChange"]
               /\ UNCHANGED <<rdr, canvas, gl>>
  /\ UNCHANGED <<store, calc, env, ctor, shaderLog>>

\* ExportDialog.handleExport for the active image at w x h
HandleExport(w, h) ==
  /\ view.rendererRef # "unset"
  /\ IF view.rendererRef = "set" /\ isReady /\ view.loadedImage # 0
     THEN \E R \in {renderForExport(Pack, view.edits, w, h)} :
            /\ Commit(R.S)
            /\ last' = [Call("exportCanvas", view.edits, view.masks, R.S) EXCEPT
                           !.export = [w |-> w, h |-> h,
                                       origW |-> canvas.width, origH |-> canvas.height,
                                       dataUrl |-> R.dataUrl]]
     ELSE /\ last' = [NoCall EXCEPT !.op = "exportSharp"]
          /\ UNCHANGED <<rdr, canvas, gl>>
  /\ UNCHANGED <<store, calc, env, ctor, shaderLog, view>>

NextApp ==
  \/ Mount
  \/ \E img \in Images : OnImageLoad(img)
  \/ \E e \in FewEdits, ms \in StoreMaskLists : StoreChange(e, ms)
  \/ \E sz \in CanvasSizes : HandleExport(sz[1], sz[2])
  \/ \E sz \in CanvasSizes : ResizeCanvas(sz[1], sz[2])

\* with or without a GL context; every shader compiles and links
InitApp == Init /\ env.vs /\ env.fsFull /\ env.linkFull /\ env.fsBlend /\ env.fsDraw

SpecApp == InitApp /\ [][NextApp]_vars

\* ------------------------------------------------------------------ properties
\* The frame one adjustment pass of program variant src gives for image img
\* under parameters p, as a function of p alone.
Frame(src, img, p) ==
  LET u == [exposure |-> p.exposure, contrast |-> p.contrast,
            curveEnabled |-> hasCustomCurve(p.toneCurve)]
      lut == LUTS[IF hasCustomCurve(p.toneCurve) THEN p.toneCurve ELSE IdentityCurve]
  IN  [y \in Rows |-> IF src = "full"
                      THEN FRAGMENT_SHADER(ImagePx(img)[y], u, lut)
                      ELSE FALLBACK_FRAGMENT_SHADER(ImagePx(img)[y], u)]

\* the masks of a list that are enabled and have a canvas, in list order
EnabledMasks(masks) ==
  [k \in 1..Len(enabledIdxs(masks)) |-> masks[enabledIdxs(masks)[k]]]

\* acc := mix(acc, render(combineEdits(p, mask.adjustments)), alpha), in list order
RECURSIVE Composite(_, _, _, _, _)
Composite(acc, src, img, p, ms) ==
  IF Len(ms) = 0 THEN acc
  ELSE LET layer == Frame(src, img, combineEdits(p, Head(ms).adjustments))
           alpha == Head(ms).canvas
       IN  Composite([y \in Rows |-> BLEND_FRAGMENT_SHADER(acc[y], layer[y], alpha[y])],
                     src, img, p, Tail(ms))

\* C1: renderWithMasks with at least one enabled mask, all prerequisites
\* present, leaves on the canvas the fold, in declaration order, of
\* mix(acc, layer_i, alpha_i) starting from the frame of the global edits.
C1_CompositesInDeclarationOrder ==
  (/\ last.op = "renderWithMasks"
   /\ Len(enabledIdxs(last.masks)) >= 1
   /\ ~last.missing /\ ~last.threw)
  => canvas.px = Composite(Frame(rdr.program.src, rdr.image, last.edits),
                           rdr.program.src, rdr.image, last.edits,
                           EnabledMasks(last.masks))

\* C2: renderWithMasks with no enabled mask does exactly what render(edits)
\* does from the same state, and creates, binds and draws no offscreen target.
C2_NoEnabledMaskIsRender ==
  [][(last'.op = "renderWithMasks" /\ Len(enabledIdxs(last'.masks)) = 0)
     => LET R == render(Pack, last'.edits)
        IN  /\ rdr' = Fields(R) /\ canvas' = CanvasOf(R) /\ gl' = ContextOf(R)
            /\ last'.draws = R.draws /\ last'.draws <= 1
            /\ last'.allocs = 0 /\ last'.fboBinds = 0
            /\ last'.drew = R.drew /\ ~last'.threw]_vars

\* a call with masks in the list, none of them enabled with a canvas, drew a frame
C2_Witness ==
  /\ last.op = "renderWithMasks" /\ Len(last.masks) >= 1
  /\ Len(enabledIdxs(last.masks)) = 0 /\ last.drew

\* C3: a render or renderWithMasks call made while a prerequisite is missing
\* (no program, no image, context lost) issues no draw and no allocation,
\* throws nothing and leaves every renderer field unchanged.
C3_MissingPrerequisiteIsNoOp ==
  (last.op \in {"render", "renderWithMasks"} /\ last.missing)
  => (last.draws = 0 /\ last.allocs = 0 /\ ~last.threw /\ ~last.changed)

\* C4: once the context has been lost and restored, a render call on a
\* constructed renderer with an image loaded draws a frame.
C4_RecoversAfterRestore ==
  (/\ last.op = "render" /\ gl.gen > 1 /\ ~gl.lost
   /\ rdr.program # NoProgram /\ rdr.imageLoaded)
  => last.drew

\* the driver rejected the full variant and the fallback
BothRejected ==
  /\ env.gl
  /\ ~(env.vs /\ env.fsFull /\ env.linkFull)
  /\ ~(env.vs /\ env.fsFallback /\ env.linkFallback)

\* C5: when both variants were rejected at construction the program is null
\* and isReady() false in every later state, no call draws, and no call
\* after construction compiles or links the adjustment program again.
C5_BothRejectedIsTerminal ==
  /\ []((ctor = "ok" /\ BothRejected)
        => (/\ rdr.program = NoProgram /\ ~isReady
            /\ last.draws = 0 /\ ~last.drew))
  /\ [][ctor = "ok" => shaderLog' = shaderLog]_vars

\* both variants rejected, an image loaded since, and a render call made
C5_Witness ==
  /\ ctor = "ok" /\ BothRejected /\ rdr.imageLoaded /\ last.op = "render"

\* C6: the full variant is tried first and is the active program iff it
\* compiles and links; the fallback is compiled only after the full variant
\* was rejected and is active iff it then compiles and links;
\* usingFallbackShader is true exactly when the active program is the fallback.
C6_VariantSelection ==
  ctor = "ok" =>
    LET fullOk == env.vs /\ env.fsFull /\ env.linkFull
        fallbackOk == env.vs /\ env.fsFallback /\ env.linkFallback
    IN  /\ (rdr.program.src = "full") <=> fullOk
        /\ (rdr.program.src = "fallback") <=> (~fullOk /\ fallbackOk)
        /\ \A i \in DOMAIN shaderLog :
              shaderLog[i] = "fallback"
                => (~fullOk /\ \E j \in 1..(i - 1) : shaderLog[j] = "full")
        /\ rdr.usingFallbackShader <=> (rdr.program.src = "fallback")

\* the full variant was rejected at link time and the fallback is active
C6_Witness ==
  /\ ctor = "ok" /\ env.fsFull /\ ~env.linkFull
  /\ rdr.program.src = "fallback" /\ rdr.usingFallbackShader

C8_ExportAtSizeThenRestore ==
  last.op = "renderForExport" =>
    /\ last.export.dataUrl.width = last.export.w
    /\ last.export.dataUrl.height = last.export.h
    /\ canvas.width = last.export.origW
    /\ canvas.height = last.export.origH
    /\ ~last.missing
         => last.export.dataUrl.px = Frame(rdr.program.src, rdr.image, last.edits)

\* an export of a loaded image at a width other than the canvas's
C8_Witness ==
  /\ last.op = "renderForExport" /\ ~last.missing
  /\ last.export.w # last.export.origW

\* an export requested before any image was loaded
C8_WitnessNotReady ==
  /\ last.op = "renderForExport" /\ last.missing
  /\ last.export.w # last.export.origW

\* C9: the frame an export through the live renderer captures is the frame
\* renderWithMasks gives for the stores' edits and enabled masks at the
\* export size.
C9_ExportIncludesMasks ==
  last.op = "exportCanvas" =>
    last.export.dataUrl.px =
      renderWithMasks(resize(Pack, last.export.w, last.export.h), view.edits,
                      FilterEnabled(view.masks), env.fsBlend, env.fsDraw).cpx

\* C10: the frame render(p) leaves is a function of p, the image and the
\* program variant alone, whatever calls came before, and a second
\* render(p) directly after the first changes nothing.
C10_RenderIdempotent ==
  /\ []((last.op = "render" /\ ~last.missing)
        => (last.drew /\ canvas.px = Frame(rdr.program.src, rdr.image, last.edits)))
  /\ [][(/\ last.op = "render" /\ ~last.missing
         /\ last'.op = "render" /\ last'.edits = last.edits)
        => (rdr' = rdr /\ canvas' = canvas /\ gl' = gl)]_vars

\* a render with the default curve while the LUT texture still holds the
\* texels of an earlier custom curve
C10_Witness ==
  /\ last.op = "render" /\ last.drew /\ last.edits = DEFAULT_EDITS
  /\ rdr.program.src = "full" /\ gl.lutCurve = CustomCurve

\* C11: whenever renderWithMasks runs its passes the pool holds POOL_SIZE
\* targets built for the canvas's present size; only renderWithMasks
\* rebuilds the pool, only when the pool was incomplete or built for another
\* size, and always then before it runs the passes; no other call or event
\* touches the pool.
C11_PoolFollowsCanvasSize ==
  /\ [](last.passes => PoolFits)
  /\ [][/\ last'.poolBuilds > 0 => (last'.op = "renderWithMasks" /\ ~PoolFits)
        /\ last'.passes => last'.poolBuilds = (IF PoolFits THEN 0 ELSE 1)
        /\ last'.poolBuilds = 0
             => (/\ rdr'.fboPool = rdr.fboPool
                 /\ rdr'.fboWidth = rdr.fboWidth /\ rdr'.fboHeight = rdr.fboHeight)]_vars

\* a masked render that rebuilt the pool although both programs already
\* existed: the canvas had been resized since the pool was built
C11_Witness ==
  /\ last.op = "renderWithMasks" /\ last.passes /\ last.poolBuilds = 1
  /\ last.allocs = 2 * POOL_SIZE + Len(enabledIdxs(last.masks))

\* C12: a render or renderWithMasks call that repeats the call before it
\* (same edits, same masks, same canvas size and image, pool and programs
\* built) creates no GPU object.
C12_NoAllocationInSteadyState ==
  [][(/\ last'.op \in {"render", "renderWithMasks"}
      /\ last.op = last'.op /\ last.edits = last'.edits /\ last.masks = last'.masks
      /\ ~last.missing /\ ~last.threw
      /\ (last.passes => (PoolFits /\ rdr.blendProgram # NULL /\ rdr.drawProgram # NULL)))
     => last'.allocs = 0]_vars

\* the one enabled mask of the last call, when there is exactly one
OnlyMask == EnabledMasks(last.masks)[1]

\* C13: with exactly one enabled mask, an alpha that is 255 at every pixel
\* makes renderWithMasks leave the frame render gives for the global edits
\* plus the mask's adjustments, and an alpha that is 0 at every pixel the
\* frame render gives for the global edits; for exposure +1 over the default
\* edits that is the frame of render(exposure +1).
C13_UniformMaskIsRender ==
  (/\ last.op = "renderWithMasks" /\ ~last.missing /\ ~last.threw
   /\ Len(enabledIdxs(last.masks)) = 1)
  => /\ OnlyMask.canvas = AlphaFull
          => canvas.px = Frame(rdr.program.src, rdr.image,
                               combineEdits(last.edits, OnlyMask.adjustments))
     /\ OnlyMask.canvas = AlphaZero
          => canvas.px = Frame(rdr.program.src, rdr.image, last.edits)
     /\ (OnlyMask.canvas = AlphaFull /\ OnlyMask.adjustments = Adj(1, 0)
          /\ last.edits = DEFAULT_EDITS)
          => canvas.px = render(Pack, Edit(1, 0, DefaultCurve)).cpx

\* a full-alpha exposure +1 mask composited over the default edits
C13_Witness ==
  /\ last.op = "renderWithMasks" /\ last.passes /\ last.drew
  /\ Len(enabledIdxs(last.masks)) = 1
  /\ OnlyMask.canvas = AlphaFull /\ OnlyMask.adjustments = Adj(1, 0)
  /\ last.edits = DEFAULT_EDITS

\* the rows where both masks have non-zero alpha
Overlap(m1, m2) == {y \in Rows : m1.canvas[y] > 0 /\ m2.canvas[y] > 0}

\* C14: for two enabled masks that overlap and whose layers differ at a
\* pixel of the overlap, the frame of renderWithMasks differs, at a pixel of
\* the overlap, from the frame the same call gives with the two masks in
\* the other order.
C14_OrderDependent ==
  (/\ last.op = "renderWithMasks" /\ last.passes /\ ~last.threw
   /\ Len(enabledIdxs(last.masks)) = 2)
  => LET m1 == EnabledMasks(last.masks)[1]
         m2 == EnabledMasks(last.masks)[2]
         layer1 == Frame(rdr.program.src, rdr.image, combineEdits(last.edits, m1.adjustments))
         layer2 == Frame(rdr.program.src, rdr.image, combineEdits(last.edits, m2.adjustments))
         swapped == renderWithMasks(Pack, last.edits, <<m2, m1>>,
                                    env.fsBlend, env.fsDraw).cpx
     IN  (\E y \in Overlap(m1, m2) : layer1[y] # layer2[y])
           => \E y \in Overlap(m1, m2) : canvas.px[y] # swapped[y]

\* C15: the table built from the control points (0,0), (255,255) has
\* lut[i] within 1 of i at every level i.
C15_IdentityCurveLUT ==
  (/\ calc.fn = "updateCurveLUT" /\ Len(calc.out) = LUT_SIZE
   /\ calc.arg = <<<<0, 0>>, <<255, 255>>>>)
  => \A i \in 0..(LUT_SIZE - 1) : Abs(calc.out[i + 1] - i) <= 1

\* points in increasing x order with non-decreasing y
SortedMonotone(points) ==
  \A j \in 1..(Len(points) - 1) :
     points[j][1] < points[j + 1][1] /\ points[j][2] <= points[j + 1][2]

\* C16: for control points sorted by x with non-decreasing y the table is
\* non-decreasing, and at every level between two adjacent control points
\* its entry lies between the two points' y values.
C16_MonotoneNoOvershoot ==
  (/\ calc.fn = "updateCurveLUT" /\ Len(calc.out) = LUT_SIZE
   /\ Len(calc.arg) >= 2 /\ SortedMonotone(calc.arg))
  => /\ \A i \in 0..(LUT_SIZE - 2) : calc.out[i + 1] <= calc.out[i + 2]
     /\ \A j \in 1..(Len(calc.arg) - 1), i \in 0..(LUT_SIZE - 1) :
          (calc.arg[j][1] <= i /\ i <= calc.arg[j + 1][1])
            => (calc.arg[j][2] <= calc.out[i + 1] /\ calc.out[i + 1] <= calc.arg[j + 1][2])

\* ------------------------------------------------------------ MaskRasterizer
\* The 2D canvas is modelled on its middle column: RasterRows pixels, pixel y
\* (from the top) sampled at its centre, y - 1/2.  A pixel of the backing
\* store holds a premultiplied grey c and an alpha a, both 0..255.  Mask
\* coordinates, which the store keeps as fractions of the canvas, and slider
\* values are percentages here.
RasterRows == 4
MaxStrokes == 2

Px(c, a) == [c |-> c, a |-> a]

\* a pixel the fill does not touch
NoPaint == [v |-> 0, a |-> 0, none |-> TRUE]

Paint(v, a) == [v |-> v, a |-> a, none |-> FALSE]

MaxOf(a, b) == IF a >= b THEN a ELSE b

MinOf(a, b) == IF a <= b THEN a ELSE b

\* globalCompositeOperation: one pixel of the backing store under a source
\* of grey v and alpha a
Composite2D(op, dst, src) ==
  IF src.none THEN dst
  ELSE LET sc == RoundDiv(src.v * src.a, 255)
       IN CASE op = "source-over" ->
                 Px(sc + RoundDiv(dst.c * (255 - src.a), 255),
                    src.a + RoundDiv(dst.a * (255 - src.a), 255))
            [] op = "lighter" ->
                 Px(MinOf(255, dst.c + sc), MinOf(255, dst.a + src.a))
            [] op = "destination-out" ->
                 Px(RoundDiv(dst.c * (255 - src.a), 255),
                    RoundDiv(dst.a * (255 - src.a), 255))
            [] op = "destination-in" ->
                 Px(RoundDiv(dst.c * src.a, 255), RoundDiv(dst.a * src.a, 255))

RECURSIVE Gcd(_, _)
Gcd(a, b) == IF b = 0 THEN a ELSE Gcd(b, a % b)

\* the colour at parameter n/d (d > 0, in lowest terms) of a gradient whose
\* stops are <<offset in percent, value>>, in offset order
ColourAt(stops, n, d) ==
  LET below == { j \in 1..Len(stops) : stops[j][1] * d <= 100 * n }
  IN  IF below = {} THEN stops[1][2]
      ELSE LET j == CHOOSE k \in below : \A m \in below : m <= k
           IN  IF j = Len(stops) THEN stops[j][2]
               ELSE RoundDiv(stops[j][2] * (stops[j + 1][1] * d - 100 * n)
                               + stops[j + 1][2] * (100 * n - stops[j][1] * d),
                             (stops[j + 1][1] - stops[j][1]) * d)

\* CanvasGradient: the colour at parameter n/d, d > 0
GradientAt(stops, n, d) ==
  Only({ ColourAt(stops, n \div g, d \div g) : g \in {Gcd(Abs(n), d)} })

\* one stamp of a stroke at pixel y: a radial gradient from the inner radius
\* to the radius, filled inside the arc of the radius.  A gradient whose two
\* circles coincide paints nothing.
BrushStamp(stroke, pt, width, height, imageWidth, imageHeight, y) ==
  LET sxn == width
      sxd == MaxOf(imageWidth, 1)
      syn == height
      syd == MaxOf(imageHeight, 1)
      feather == Clamp(stroke.feather, 0, 100)
      \* pressure and flow in percent: alphaVal over 10000
      alphaVal == Clamp(pt.pressure * stroke.flow, 0, 10000)
      byteVal == RoundDiv(alphaVal * 255, 10000)
      \* distance to the stamp centre, over 2 * syd; radius, over 2 * sxd
      dist == Abs((2 * y - 1) * syd - 2 * pt.y * syn)
      rad == stroke.size * sxn
      n == 100 * dist * sxd - rad * syd * (100 - feather)
      d == rad * syd * feather
  IN  IF feather = 0 \/ dist * sxd > rad * syd THEN NoPaint
      ELSE IF stroke.erase
           THEN Paint(255, GradientAt(<<<<0, byteVal>>, <<100, 0>>>>, n, d))
           ELSE Paint(GradientAt(<<<<0, byteVal>>, <<100, 0>>>>, n, d), 255)

RECURSIVE BrushPoints(_, _, _, _, _, _, _, _)
BrushPoints(px, stroke, i, width, height, imageWidth, imageHeight, y) ==
  IF i > Len(stroke.points) THEN px
  ELSE Only({ BrushPoints(p, stroke, i + 1, width, height, imageWidth, imageHeight, y) :
              p \in {Composite2D(IF stroke.erase THEN "destination-out" ELSE "lighter",
                                 px,
                                 BrushStamp(stroke, stroke.points[i], width, height,
                                            imageWidth, imageHeight, y))} })

RECURSIVE BrushStrokes(_, _, _, _, _, _, _, _)
BrushStrokes(px, strokes, k, width, height, imageWidth, imageHeight, y) ==
  IF k > Len(strokes) THEN px
  ELSE Only({ BrushStrokes(p, strokes, k + 1, width, height, imageWidth, imageHeight, y) :
              p \in {BrushPoints(px, strokes[k], 1, width, height,
                                 imageWidth, imageHeight, y)} })

rasterizeBrush(px, strokes, width, height, imageWidth, imageHeight, y) ==
  BrushStrokes(px, strokes, 1, width, height, imageWidth, imageHeight, y)

\* the middle column is at x = width / 2; n / d is the projection of the
\* pixel centre on the gradient's line
rasterizeLinearGradient(px, data, width, height, y) ==
  LET dx == (data.endX - data.startX) * width
      dy == (data.endY - data.startY) * height
      n == (50 - data.startX) * width * dx + ((2 * y - 1) * 50 - data.startY * height) * dy
      d == dx * dx + dy * dy
  IN  Composite2D("source-over", px,
                  IF d = 0 THEN NoPaint
                  ELSE Paint(GradientAt(<<<<0, 255>>, <<100, 0>>>>, n, d), 255))

\* for a centre on the middle column.  off is the pixel centre's distance
\* below the centre, in 1/100 pixel; the fill is fillRect(0, 0, width,
\* height) under the transform that scales y by ry / rx about the centre, so
\* the pixel is painted when its preimage offn / offd lies in the rectangle.
rasterizeRadialGradient(px, data, width, height, y) ==
  LET rx == data.radiusX * width
      ry == data.radiusY * height
      r == MaxOf(rx, ry)
      featherAmt == MaxOf(1, data.feather)
      inner == IF data.invert THEN 0 ELSE 255
      outer == IF data.invert THEN 255 ELSE 0
      stops == <<<<0, inner>>, <<MaxOf(0, 100 - featherAmt), inner>>, <<100, outer>>>>
      off == (2 * y - 1) * 50 - data.centerY * height
      scaled == rx # ry /\ rx > 0 /\ ry > 0
      offn == IF scaled THEN off * rx ELSE off
      offd == IF scaled THEN ry ELSE 1
      pre == data.centerY * height * offd + offn
  IN  Composite2D("source-over", px,
                  IF r = 0 \/ pre < 0 \/ pre > 100 * height * offd THEN NoPaint
                  ELSE Paint(GradientAt(stops, Abs(offn), offd * r), 255))

\* the placeholder ramp runs from x = 0 to x = width: the middle column is
\* at parameter 1/2
rasterizeLuminosity(px, data, width, height, y) ==
  LET t == data.threshold
      f == data.feather
      stops == CASE data.range = "highlights" ->
                      <<<<0, 0>>, <<MaxOf(0, t - f), 0>>, <<MinOf(100, t + f), 255>>, <<100, 255>>>>
                 [] data.range = "shadows" ->
                      <<<<0, 255>>, <<MaxOf(0, 100 - t - f), 255>>,
                        <<MinOf(100, 100 - t + f), 0>>, <<100, 0>>>>
                 [] data.range = "midtones" ->
                      <<<<0, 0>>, <<30, 255>>, <<70, 255>>, <<100, 0>>>>
  IN  Composite2D("source-over", px,
                  IF width = 0 THEN NoPaint ELSE Paint(GradientAt(stops, 1, 2), 255))

\* MaskRasterizer.rasterize at pixel y: black fill, the mask's shape, then
\* the opacity step
rasterizePixel(mask, width, height, imageWidth, imageHeight, y) ==
  LET black == Px(0, 255)
      shape == CASE mask.type = "brush" ->
                      rasterizeBrush(black, mask.brushStrokes, width, height,
                                     imageWidth, imageHeight, y)
                 [] mask.type = "linearGradient" ->
                      rasterizeLinearGradient(black, mask.linearGradient, width, height, y)
                 [] mask.type = "radialGradient" ->
                      rasterizeRadialGradient(black, mask.radialGradient, width, height, y)
                 [] mask.type = "luminosity" ->
                      rasterizeLuminosity(black, mask.luminosity, width, height, y)
  IN  Only({ IF mask.opacity < 100
             THEN Composite2D("destination-in", p,
                              Paint(255, RoundDiv(mask.opacity * 255, 100)))
             ELSE p : p \in {shape} })

RECURSIVE RasterFrom(_, _, _, _, _, _)
RasterFrom(mask, width, height, imageWidth, imageHeight, y) ==
  IF y > RasterRows THEN <<>>
  ELSE <<rasterizePixel(mask, width, height, imageWidth, imageHeight, y)>>
         \o RasterFrom(mask, width, height, imageWidth, imageHeight, y + 1)

rasterize(mask, width, height, imageWidth, imageHeight) ==
  RasterFrom(mask, width, height, imageWidth, imageHeight, 1)

\* texImage2D(..., canvas) without UNPACK_PREMULTIPLY_ALPHA_WEBGL: the
\* texture receives the un-premultiplied colour, and the blend shader reads
\* its red channel
UploadRed(p) == IF p.a = 0 THEN 0 ELSE MinOf(255, RoundDiv(p.c * 255, p.a))

RECURSIVE RedFrom(_, _)
RedFrom(cv, y) == IF y > Len(cv) THEN <<>> ELSE <<UploadRed(cv[y])>> \o RedFrom(cv, y + 1)

MaskAlpha(cv) == RedFrom(cv, 1)

\* ---- rasterizer inputs: image and canvas of the same height, stamps on the
\* middle column
Point(y) == [y |-> y, pressure |-> 100]

Stroke(erase, size, feather, flow, ys) ==
  [points |-> [i \in 1..Len(ys) |-> Point(ys[i])], size |-> size,
   feather |-> feather, flow |-> flow, erase |-> erase]

StrokeSet == { Stroke(FALSE, 4, 50, 100, <<2>>), Stroke(FALSE, 4, 50, 75, <<2, 3>>),
               Stroke(TRUE, 4, 0, 100, <<2>>), Stroke(TRUE, 4, 50, 100, <<2>>),
               Stroke(TRUE, 4, 50, 75, <<2>>), Stroke(TRUE, 4, 100, 100, <<2>>) }

BrushMask(strokes, opacity) == [type |-> "brush", opacity |-> opacity, brushStrokes |-> strokes]

LinearMask(y0, y1, opacity) ==
  [type |-> "linearGradient", opacity |-> opacity,
   linearGradient |-> [startX |-> 50, startY |-> y0, endX |-> 50, endY |-> y1]]

RadialMask(rx, ry, feather, invert, opacity) ==
  [type |-> "radialGradient", opacity |-> opacity,
   radialGradient |-> [centerX |-> 50, centerY |-> 50, radiusX |-> rx, radiusY |-> ry,
                       feather |-> feather, invert |-> invert]]

LuminosityMask(range, feather, opacity) ==
  [type |-> "luminosity", opacity |-> opacity,
   luminosity |-> [range |-> range, threshold |-> 50, feather |-> feather]]

RasterMasks ==
  { BrushMask(s, o) : s \in SeqsUpTo(StrokeSet, MaxStrokes), o \in {100, 50} }
    \cup { LinearMask(y[1], y[2], o) :
             y \in {<<0, 50>>, <<0, 100>>, <<100, 0>>, <<50, 50>>}, o \in {100, 50, 0} }
    \cup { RadialMask(rx, ry, f, inv, 100) :
             rx \in {20, 30, 50}, ry \in {20, 30, 50}, f \in {0, 50, 100}, inv \in BOOLEAN }
    \cup { RadialMask(30, 30, 50, TRUE, o) : o \in {50, 0} }
    \cup { LuminosityMask(r, f, o) :
             r \in {"highlights", "midtones", "shadows"}, f \in {0, 25}, o \in {100, 50} }

RasterCalls ==
  { [mask |-> m, width |-> w, height |-> RasterRows, imageWidth |-> w, imageHeight |-> RasterRows] :
      m \in RasterMasks, w \in {RasterRows, 2 * RasterRows} }

InitRaster ==
  /\ InitRenderer /\ store = NewStore
  /\ CoreEnv /\ env.fsFull /\ canvas.width = canvas.height
  /\ calc \in {[fn |-> "rasterize", arg |-> a, out |-> <<>>] : a \in RasterCalls}

Rasterize ==
  /\ calc.fn = "rasterize"
  /\ calc' = [calc EXCEPT !.out = rasterize(calc.arg.mask, calc.arg.width, calc.arg.height,
                                             calc.arg.imageWidth, calc.arg.imageHeight)]
  /\ UNCHANGED <<store, env, ctor, shaderLog, rdr, canvas, gl, last, view>>

NextRaster == Rasterize

SpecRaster == InitRaster /\ [][NextRaster]_vars

\* C17: at every pixel the alpha the blend pass samples from a mask rasterized
\* at opacity o is, within rounding, o/100 of the alpha of the same mask
\* rasterized at opacity 100.
C17_OpacityScalesAlpha ==
  (calc.fn = "rasterize" /\ calc.out # <<>>)
  => LET a == calc.arg
         full == MaskAlpha(rasterize([a.mask EXCEPT !.opacity = 100], a.width, a.height,
                                     a.imageWidth, a.imageHeight))
         got == MaskAlpha(calc.out)
     IN  \A y \in 1..RasterRows :
            Abs(got[y] - RoundDiv(full[y] * a.mask.opacity, 100)) <= 1

\* C18: for a radial gradient at opacity 100 the sampled alpha and the
\* sampled alpha of the same geometry with invert flipped sum to 255 at every
\* pixel.
C18_InvertIsComplement ==
  (calc.fn = "rasterize" /\ calc.out # <<>> /\ calc.arg.mask.type = "radialGradient"
     /\ calc.arg.mask.opacity = 100)
  => LET a == calc.arg
         other == MaskAlpha(rasterize([a.mask EXCEPT !.radialGradient.invert = ~@],
                                      a.width, a.height, a.imageWidth, a.imageHeight))
         got == MaskAlpha(calc.out)
     IN  \A y \in 1..RasterRows : got[y] + other[y] = 255

\* pixel y lies inside the arc of one of the stroke's stamps
Covers(stroke, a, y) ==
  \E i \in 1..Len(stroke.points) :
     Abs((2 * y - 1) * MaxOf(a.imageHeight, 1) - 2 * stroke.points[i].y * a.height)
         * MaxOf(a.imageWidth, 1)
       <= stroke.size * a.width * MaxOf(a.imageHeight, 1)

\* C19: in a brush mask at opacity 100 whose last stroke is an erase stroke
\* at full flow and pressure, the sampled alpha is at most 1 at every pixel
\* that stroke covers.
C19_EraseDominates ==
  (calc.fn = "rasterize" /\ calc.out # <<>> /\ calc.arg.mask.type = "brush"
     /\ calc.arg.mask.opacity = 100 /\ Len(calc.arg.mask.brushStrokes) > 0)
  => LET a == calc.arg
         e == a.mask.brushStrokes[Len(a.mask.brushStrokes)]
         got == MaskAlpha(calc.out)
     IN  (e.erase /\ e.flow = 100)
           => \A y \in 1..RasterRows : Covers(e, a, y) => got[y] <= 1

\* ------------------------------------------- FRAGMENT_SHADER on RGB texels
\* The whole of main on one fragment.  A colour is <<r, g, b>> with 1.0 = ONE;
\* edits and uniforms keep the units of the sliders.  FRAGMENT_SHADER above
\* is the same program on grey texels under edits that move only exposure,
\* contrast and the tone curve.
\* x || 1.0
OrOne(x) == IF x = 0 THEN 1 ELSE x

Clamp3(c, lo, hi) == <<Clamp(c[1], lo, hi), Clamp(c[2], lo, hi), Clamp(c[3], lo, hi)>>

Add3(c, k) == Only({ <<c[1] + x, c[2] + x, c[3] + x>> : x \in {k} })

\* dot(c, vec3(0.2126, 0.7152, 0.0722))
luminance(c) == RoundDiv(2126 * c[1] + 7152 * c[2] + 722 * c[3], 10000)

\* t * t * (3 - 2 t) for t = clamp((x - edge0) / (edge1 - edge0), 0, 1),
\* edge0 # edge1; the shader also calls it with edge0 > edge1
smoothstep(edge0, edge1, x) ==
  Only({ RoundDiv(RoundDiv(t * t, ONE) * (3 * ONE - 2 * t), ONE) :
         t \in {Clamp(IF edge1 > edge0
                      THEN RoundDiv((x - edge0) * ONE, edge1 - edge0)
                      ELSE RoundDiv((edge0 - x) * ONE, edge0 - edge1), 0, ONE)} })

\* mix(a, b, k) on one channel, k with 1.0 = ONE
Mix(a, b, k) == a + RoundDiv((b - a) * k, ONE)

\* vec3(h, s, l): the hue as <<h * 6>> with 1.0 = ONE, the saturation with
\* 1.0 = ONE, the lightness as l * 2 with 1.0 = ONE
rgb2hsl(c) ==
  Only({ IF maxC = minC THEN <<0, 0, maxC + minC>>
         ELSE Only({ << (IF maxC = c[1]
                         THEN RoundDiv((c[2] - c[3]) * ONE, d)
                                + (IF c[2] < c[3] THEN 6 * ONE ELSE 0)
                         ELSE IF maxC = c[2]
                         THEN RoundDiv((c[3] - c[1]) * ONE, d) + 2 * ONE
                         ELSE RoundDiv((c[1] - c[2]) * ONE, d) + 4 * ONE),
                        (IF maxC + minC > ONE
                         THEN RoundDiv(d * ONE, 2 * ONE - maxC - minC)
                         ELSE RoundDiv(d * ONE, maxC + minC)),
                        maxC + minC >> : d \in {maxC - minC} }) :
         maxC \in {MaxOf(MaxOf(c[1], c[2]), c[3])},
         minC \in {MinOf(MinOf(c[1], c[2]), c[3])} })

\* p and q as 2 p and 2 q, t as 6 t
hue2rgb(p, q, t) ==
  Only({ IF u < ONE THEN p + RoundDiv((q - p) * u, ONE)
         ELSE IF u < 3 * ONE THEN q
         ELSE IF u < 4 * ONE THEN p + RoundDiv((q - p) * (4 * ONE - u), ONE)
         ELSE p :
         u \in {IF t < 0 THEN t + 6 * ONE ELSE IF t > 6 * ONE THEN t - 6 * ONE ELSE t} })

\* a conversion that hands the red channel's hue offset to blue and blue's
\* to red
hsl2rgbSwapped(c) ==
  IF c[2] = 0 THEN <<RoundDiv(c[3], 2), RoundDiv(c[3], 2), RoundDiv(c[3], 2)>>
  ELSE Only({ Only({ << RoundDiv(hue2rgb(p, q, c[1] - 2 * ONE), 2),
                        RoundDiv(hue2rgb(p, q, c[1]), 2),
                        RoundDiv(hue2rgb(p, q, c[1] + 2 * ONE), 2) >> :
                     p \in {2 * c[3] - q} }) :
              q \in {IF c[3] < ONE
                     THEN c[3] + RoundDiv(c[3] * c[2], ONE)
                     ELSE c[3] + 2 * c[2] - RoundDiv(c[3] * c[2], ONE)} })

hsl2rgb(c) ==
  IF c[2] = 0 THEN <<RoundDiv(c[3], 2), RoundDiv(c[3], 2), RoundDiv(c[3], 2)>>
  ELSE Only({ Only({ << RoundDiv(hue2rgb(p, q, c[1] + 2 * ONE), 2),
                        RoundDiv(hue2rgb(p, q, c[1]), 2),
                        RoundDiv(hue2rgb(p, q, c[1] - 2 * ONE), 2) >> :
                     p \in {2 * c[3] - q} }) :
              q \in {IF c[3] < ONE
                     THEN c[3] + RoundDiv(c[3] * c[2], ONE)
                     ELSE c[3] + 2 * c[2] - RoundDiv(c[3] * c[2], ONE)} })

\* red, orange, yellow, green, aqua, blue, purple, magenta, in degrees
ColorCenters == <<0, 30, 60, 120, 180, 240, 280, 320>>

\* smoothstep(30, 0, dist) of the hue's distance to the band's centre
getColorWeight(hue, colorIdx) ==
  Only({ smoothstep(30 * ONE, 0, IF dist > 180 * ONE THEN 360 * ONE - dist ELSE dist) :
         dist \in {Abs(hue * 60 - ColorCenters[colorIdx] * ONE)} })

RECURSIVE WeightedSum(_, _, _)
WeightedSum(vals, hue, i) ==
  IF i > Len(ColorCenters) THEN 0
  ELSE vals[i] * getColorWeight(hue, i) + WeightedSum(vals, hue, i + 1)

\* color.r += tempShift - tintShift * 0.5; color.g += tintShift; color.b -= tempShift
TemperatureTint(c, u) ==
  << c[1] + RoundDiv(u.temperature * 4 * ONE, 10000) - RoundDiv(u.tint * 3 * ONE, 20000),
     c[2] + RoundDiv(u.tint * 3 * ONE, 10000),
     c[3] - RoundDiv(u.temperature * 4 * ONE, 10000) >>

\* highlights, shadows, whites, blacks
ToneRegions(c, u) ==
  Only({ Add3(c, RoundDiv(u.highlights * smoothstep(ONE \div 2, ONE, lum)
                            + u.shadows * (ONE - smoothstep(0, ONE \div 2, lum))
                            + u.whites * smoothstep(((3 * ONE) \div 4), ONE, lum)
                            + u.blacks * (ONE - smoothstep(0, ONE \div 4, lum)), 100)) :
         lum \in {luminance(c)} })

ToneCurve(c, u, lut) ==
  IF u.curveEnabled
  THEN <<SampleLUT(lut, c[1]), SampleLUT(lut, c[2]), SampleLUT(lut, c[3])>>
  ELSE c

\* HSL per-channel adjustments, vibrance, saturation, and back to RGB
HslVibranceSaturation(c, u) ==
  Only({ Only({ Only({ hsl2rgb(<<h, Clamp(RoundDiv(sv * (100 + u.saturation), 100), 0, ONE), l>>) :
                       sv \in {Clamp(s + RoundDiv(u.vibrance * (ONE - s), 100), 0, ONE)} }) :
                h \in {(hsl[1] + RoundDiv(WeightedSum(u.hslHue, hsl[1], 1), 60)) % (6 * ONE)},
                s \in {Clamp(hsl[2] + RoundDiv(WeightedSum(u.hslSat, hsl[1], 1), 100), 0, ONE)},
                l \in {Clamp(hsl[3] + RoundDiv(2 * WeightedSum(u.hslLum, hsl[1], 1), 100),
                             0, 2 * ONE)} }) :
         hsl \in {rgb2hsl(Clamp3(c, 0, ONE))} })

\* mix(color, color * tint * 2.0, w * sat * 0.01 * blend), tint = hsl2rgb(hue / 360, 1, 0.5)
Grade(c, hue, sat, w, blending) ==
  IF sat > 0
  THEN Only({ << Mix(c[1], RoundDiv(c[1] * tint[1] * 2, ONE), k),
                 Mix(c[2], RoundDiv(c[2] * tint[2] * 2, ONE), k),
                 Mix(c[3], RoundDiv(c[3] * tint[3] * 2, ONE), k) >> :
              tint \in {hsl2rgb(<<RoundDiv(hue * ONE, 60), ONE, ONE>>)},
              k \in {RoundDiv(w * sat * blending, 10000)} })
  ELSE c

\* the three weights come from the luminance before any tint is applied
ColorGrading(c, u) ==
  Only({ Only({ Only({ Only({ Grade(c2, u.cgHighlightsHue, u.cgHighlightsSat, highlightW, u.cgBlending) :
                              c2 \in {Grade(c1, u.cgMidtonesHue, u.cgMidtonesSat,
                                            MaxOf(ONE - shadowW - highlightW, 0), u.cgBlending)} }) :
                       c1 \in {Grade(c, u.cgShadowsHue, u.cgShadowsSat, shadowW, u.cgBlending)} }) :
                shadowW \in {smoothstep(ONE \div 2 + RoundDiv(u.cgBalance * ONE, 400), 0, cgLum)},
                highlightW \in {smoothstep(ONE \div 2 - RoundDiv(u.cgBalance * ONE, 400), ONE, cgLum)} }) :
         cgLum \in {luminance(c)} })

Calibration(c, u) ==
  Only({ << Clamp(RoundDiv((c[1] - RoundDiv(u.calShadowsTint * 15 * m, 10000))
                             * (1000 + 5 * u.calRedSat), 1000)
                    + RoundDiv(u.calRedHue * 2 * ONE, 1000), 0, ((3 * ONE) \div 2)),
            Clamp(RoundDiv((c[2] + RoundDiv(u.calShadowsTint * 3 * m, 1000))
                             * (1000 + 5 * u.calGreenSat), 1000)
                    + RoundDiv(u.calGreenHue * 2 * ONE, 1000), 0, ((3 * ONE) \div 2)),
            Clamp(RoundDiv(c[3] * (1000 + 5 * u.calBlueSat), 1000)
                    + RoundDiv(u.calBlueHue * 2 * ONE, 1000), 0, ((3 * ONE) \div 2)) >> :
         m \in {ONE - smoothstep(0, ONE \div 2, luminance(c))} })

\* color * (1 + dehazeFactor) - dehazeFactor * 0.5, dehazeFactor = u_dehaze * 0.005
Dehaze(c, u) ==
  << RoundDiv(c[1] * (1000 + 5 * u.dehaze), 1000) - RoundDiv(5 * u.dehaze * ONE, 2000),
     RoundDiv(c[2] * (1000 + 5 * u.dehaze), 1000) - RoundDiv(5 * u.dehaze * ONE, 2000),
     RoundDiv(c[3] * (1000 + 5 * u.dehaze), 1000) - RoundDiv(5 * u.dehaze * ONE, 2000) >>

\* color += u_clarity * 0.003 * clarityMask * (color - 0.5)
Clarity(c, u) ==
  Only({ << c[1] + RoundDiv(u.clarity * 3 * m * (c[1] - ONE \div 2), 1000 * ONE),
            c[2] + RoundDiv(u.clarity * 3 * m * (c[2] - ONE \div 2), 1000 * ONE),
            c[3] + RoundDiv(u.clarity * 3 * m * (c[3] - ONE \div 2), 1000 * ONE) >> :
         m \in {ONE - 2 * Abs(luminance(c) - ONE \div 2)} })

\* color += u_texture * 0.001 * (color - textureLum)
Texture(c, u) ==
  Only({ << c[1] + RoundDiv(u.texture * (c[1] - lum), 1000),
            c[2] + RoundDiv(u.texture * (c[2] - lum), 1000),
            c[3] + RoundDiv(u.texture * (c[3] - lum), 1000) >> :
         lum \in {luminance(c)} })

\* the eight taps around the fragment, on an image whose rows are uniform:
\* three in the row u_sharpenRadius above, two in the fragment's own row,
\* three in the row below
Sharpening(c, in, u) ==
  IF u.sharpenAmount > 0
  THEN << c[1] + RoundDiv((8 * in.texColor[1] - 3 * in.above[1] - 2 * in.texColor[1]
                             - 3 * in.below[1]) * (ONE \div 255) * u.sharpenAmount, 800),
          c[2] + RoundDiv((8 * in.texColor[2] - 3 * in.above[2] - 2 * in.texColor[2]
                             - 3 * in.below[2]) * (ONE \div 255) * u.sharpenAmount, 800),
          c[3] + RoundDiv((8 * in.texColor[3] - 3 * in.above[3] - 2 * in.texColor[3]
                             - 3 * in.below[3]) * (ONE \div 255) * u.sharpenAmount, 800) >>
  ELSE c

\* on the middle column center.x is 0 and dist = |v_texCoord.y - 0.5| * 1.414
Vignette(c, in, u) ==
  IF u.vignetteAmount # 0
  THEN Only({ << RoundDiv(c[1] * (100 * ONE - u.vignetteAmount * v), 100 * ONE),
                 RoundDiv(c[2] * (100 * ONE - u.vignetteAmount * v), 100 * ONE),
                 RoundDiv(c[3] * (100 * ONE - u.vignetteAmount * v), 100 * ONE) >> :
              v \in {smoothstep(RoundDiv(u.vignetteMidpoint * ONE, 100),
                                RoundDiv(u.vignetteMidpoint * ONE, 100)
                                  + MaxOf(RoundDiv(u.vignetteFeather * ONE, 100),
                                          RoundDiv(ONE, 100)),
                                RoundDiv(Abs(in.texCoordY - ONE \div 2) * 1414, 1000))} })
  ELSE c

\* grain = (rand(grainCoord) - 0.5) * u_grainAmount * 0.01; in.rand is the
\* value of rand at the fragment
Grain(c, in, u) ==
  IF u.grainAmount > 0
  THEN Add3(c, RoundDiv((in.rand - ONE \div 2) * u.grainAmount, 100))
  ELSE c

StageOrder ==
  << "exposure", "contrast", "temperatureTint", "toneRegions", "toneCurve", "hsl",
     "colorGrading", "calibration", "dehaze", "clarity", "texture", "sharpening",
     "vignette", "grain" >>

Stage(name, c, in, u, lut) ==
  CASE name = "exposure" ->
         <<ExposureStage(c[1], u.exposure), ExposureStage(c[2], u.exposure),
           ExposureStage(c[3], u.exposure)>>
    [] name = "contrast" ->
         <<ContrastStage(c[1], u.contrast), ContrastStage(c[2], u.contrast),
           ContrastStage(c[3], u.contrast)>>
    [] name = "temperatureTint" -> TemperatureTint(c, u)
    [] name = "toneRegions" -> ToneRegions(c, u)
    [] name = "toneCurve" -> ToneCurve(c, u, lut)
    [] name = "hsl" -> HslVibranceSaturation(c, u)
    [] name = "colorGrading" -> ColorGrading(c, u)
    [] name = "calibration" -> Calibration(c, u)
    [] name = "dehaze" -> Dehaze(c, u)
    [] name = "clarity" -> Clarity(c, u)
    [] name = "texture" -> Texture(c, u)
    [] name = "sharpening" -> Sharpening(c, in, u)
    [] name = "vignette" -> Vignette(c, in, u)
    [] name = "grain" -> Grain(c, in, u)

RECURSIVE Stages(_, _, _, _, _)
Stages(c, k, in, u, lut) ==
  IF k > Len(StageOrder) THEN c
  ELSE Only({ Stages(c2, k + 1, in, u, lut) : c2 \in {Stage(StageOrder[k], c, in, u, lut)} })

\* main: the stages in order, the final clamp, and the 8-bit store
main(in, u, lut) ==
  Only({ <<Store8(c[1]), Store8(c[2]), Store8(c[3])>> :
         c \in {Stages(<<in.texColor[1] * (ONE \div 255), in.texColor[2] * (ONE \div 255),
                         in.texColor[3] * (ONE \div 255)>>, 1, in, u, lut)} })

\* ---- the uniforms renderWithEdits sets, for every field of the edits
HslColors == <<"red", "orange", "yellow", "green", "aqua", "blue", "purple", "magenta">>

\* hslHue[i] = edits.hsl[color + 'Hue'] || 0, and zeros without edits.hsl
HslArray(edits, suffix) ==
  [i \in 1..Len(HslColors) |->
     IF "hsl" \in DOMAIN edits THEN Field(edits.hsl, HslColors[i] \o suffix, 0) ELSE 0]

Primary(cal, name, k) == IF name \in DOMAIN cal THEN Field(cal[name], k, 0) ELSE 0

AllUniforms(edits) ==
  LET cg == Field(edits, "colorGrading", <<>>)
      cal == Field(edits, "calibration", <<>>)
      sharpening == Field(edits, "sharpening", <<>>)
      vignette == Field(edits, "vignette", <<>>)
      grain == Field(edits, "grain", <<>>)
  IN  [exposure |-> Field(edits, "exposure", 0),
       contrast |-> Field(edits, "contrast", 0),
       highlights |-> Field(edits, "highlights", 0),
       shadows |-> Field(edits, "shadows", 0),
       whites |-> Field(edits, "whites", 0),
       blacks |-> Field(edits, "blacks", 0),
       temperature |-> Field(edits, "temperature", 0),
       tint |-> Field(edits, "tint", 0),
       vibrance |-> Field(edits, "vibrance", 0),
       saturation |-> Field(edits, "saturation", 0),
       clarity |-> Field(edits, "clarity", 0),
       dehaze |-> Field(edits, "dehaze", 0),
       texture |-> Field(edits, "texture", 0),
       curveEnabled |-> ("toneCurve" \in DOMAIN edits /\ hasCustomCurve(edits.toneCurve)),
       hslHue |-> HslArray(edits, "Hue"),
       hslSat |-> HslArray(edits, "Sat"),
       hslLum |-> HslArray(edits, "Lum"),
       cgShadowsHue |-> Field(cg, "shadowsHue", 0),
       cgShadowsSat |-> Field(cg, "shadowsSat", 0),
       cgMidtonesHue |-> Field(cg, "midtonesHue", 0),
       cgMidtonesSat |-> Field(cg, "midtonesSat", 0),
       cgHighlightsHue |-> Field(cg, "highlightsHue", 0),
       cgHighlightsSat |-> Field(cg, "highlightsSat", 0),
       cgBlending |-> Field(cg, "blending", 50),
       cgBalance |-> Field(cg, "balance", 0),
       calShadowsTint |-> Field(cal, "shadowsTint", 0),
       calRedHue |-> Primary(cal, "redPrimary", "hue"),
       calRedSat |-> Primary(cal, "redPrimary", "saturation"),
       calGreenHue |-> Primary(cal, "greenPrimary", "hue"),
       calGreenSat |-> Primary(cal, "greenPrimary", "saturation"),
       calBlueHue |-> Primary(cal, "bluePrimary", "hue"),
       calBlueSat |-> Primary(cal, "bluePrimary", "saturation"),
       sharpenAmount |-> Field(sharpening, "amount", 0),
       sharpenRadius |-> OrOne(Field(sharpening, "radius", 0)),
       vignetteAmount |-> Field(vignette, "amount", 0),
       vignetteMidpoint |-> Field(vignette, "midpoint", 50),
       vignetteRoundness |-> Field(vignette, "roundness", 0),
       vignetteFeather |-> Field(vignette, "feather", 50),
       grainAmount |-> Field(grain, "amount", 0),
       grainSize |-> Field(grain, "size", 25)]

\* DEFAULT_EDITS with every field the adjustment pass reads
DEFAULT_EDITS_ALL ==
  [exposure |-> 0, contrast |-> 0, highlights |-> 0, shadows |-> 0, whites |-> 0,
   blacks |-> 0, temperature |-> 0, tint |-> 0, vibrance |-> 0, saturation |-> 0,
   toneCurve |-> DefaultCurve,
   hsl |-> [redHue |-> 0, orangeHue |-> 0, yellowHue |-> 0, greenHue |-> 0,
            aquaHue |-> 0, blueHue |-> 0, purpleHue |-> 0, magentaHue |-> 0,
            redSat |-> 0, orangeSat |-> 0, yellowSat |-> 0, greenSat |-> 0,
            aquaSat |-> 0, blueSat |-> 0, purpleSat |-> 0, magentaSat |-> 0,
            redLum |-> 0, orangeLum |-> 0, yellowLum |-> 0, greenLum |-> 0,
            aquaLum |-> 0, blueLum |-> 0, purpleLum |-> 0, magentaLum |-> 0],
   colorGrading |-> [shadowsHue |-> 0, shadowsSat |-> 0, midtonesHue |-> 0,
                     midtonesSat |-> 0, highlightsHue |-> 0, highlightsSat |-> 0,
                     blending |-> 50, balance |-> 0],
   sharpening |-> [amount |-> 0, radius |-> 1, detail |-> 25, masking |-> 0],
   texture |-> 0, clarity |-> 0, dehaze |-> 0,
   vignette |-> [amount |-> 0, midpoint |-> 50, roundness |-> 0, feather |-> 50,
                 highlights |-> 0],
   grain |-> [amount |-> 0, size |-> 25, roughness |-> 50],
   calibration |-> [shadowsTint |-> 0,
                    redPrimary |-> [hue |-> 0, saturation |-> 0],
                    greenPrimary |-> [hue |-> 0, saturation |-> 0],
                    bluePrimary |-> [hue |-> 0, saturation |-> 0]]]

\* an edits object with no field at all
EmptyEdits == <<>>

\* edits that move one control each away from its default
MovedEdits ==
  { [DEFAULT_EDITS_ALL EXCEPT !.exposure = 1],
    [DEFAULT_EDITS_ALL EXCEPT !.contrast = 20],
    [DEFAULT_EDITS_ALL EXCEPT !.temperature = 50],
    [DEFAULT_EDITS_ALL EXCEPT !.tint = 50],
    [DEFAULT_EDITS_ALL EXCEPT !.highlights = 50],
    [DEFAULT_EDITS_ALL EXCEPT !.shadows = 50],
    [DEFAULT_EDITS_ALL EXCEPT !.whites = -50],
    [DEFAULT_EDITS_ALL EXCEPT !.blacks = -50],
    [DEFAULT_EDITS_ALL EXCEPT !.vibrance = 50],
    [DEFAULT_EDITS_ALL EXCEPT !.saturation = -100],
    [DEFAULT_EDITS_ALL EXCEPT !.toneCurve = SteepCurve],
    [DEFAULT_EDITS_ALL EXCEPT !.hsl.redHue = 30],
    [DEFAULT_EDITS_ALL EXCEPT !.hsl.blueSat = -50],
    [DEFAULT_EDITS_ALL EXCEPT !.hsl.greenLum = 20],
    [DEFAULT_EDITS_ALL EXCEPT !.colorGrading.shadowsSat = 50],
    [DEFAULT_EDITS_ALL EXCEPT !.colorGrading.midtonesSat = 50, !.colorGrading.midtonesHue = 120],
    [DEFAULT_EDITS_ALL EXCEPT !.colorGrading.highlightsSat = 50, !.colorGrading.balance = 40],
    [DEFAULT_EDITS_ALL EXCEPT !.calibration.shadowsTint = 50],
    [DEFAULT_EDITS_ALL EXCEPT !.calibration.redPrimary.saturation = 50],
    [DEFAULT_EDITS_ALL EXCEPT !.dehaze = 50],
    [DEFAULT_EDITS_ALL EXCEPT !.clarity = 50],
    [DEFAULT_EDITS_ALL EXCEPT !.texture = 50],
    [DEFAULT_EDITS_ALL EXCEPT !.sharpening.amount = 50],
    [DEFAULT_EDITS_ALL EXCEPT !.vignette.amount = 50, !.vignette.midpoint = 20],
    [DEFAULT_EDITS_ALL EXCEPT !.grain.amount = 50] }

ShaderEdits == {DEFAULT_EDITS_ALL, EmptyEdits} \cup MovedEdits

Levels == {0, 100, 255}

Texels == {<<r, g, b>> : r \in Levels, g \in Levels, b \in Levels}

\* a fragment of the middle column in row y: its texel, the texels one
\* sharpening radius above and below it, its texture row and its grain value
Fragments ==
  { [texColor |-> t, above |-> a, below |-> t,
     texCoordY |-> RoundDiv((2 * y - 1) * ONE, 2 * NRows), rand |-> n] :
      t \in Texels, a \in {<<0, 0, 0>>, <<255, 255, 255>>}, y \in Rows, n \in {0, 900} }

InitShader ==
  /\ InitRenderer /\ store = NewStore
  /\ CoreEnv /\ env.fsFull /\ canvas.width = canvas.height
  /\ calc \in {[fn |-> "main", arg |-> [in |-> f, edits |-> e], out |-> <<>>] :
                 f \in Fragments, e \in ShaderEdits}

\* one fragment of the draw call of renderWithEdits(edits)
Shade ==
  /\ calc.fn = "main"
  /\ calc' = [calc EXCEPT !.out = main(calc.arg.in, AllUniforms(calc.arg.edits),
                                       LUTS[Field(calc.arg.edits, "toneCurve", IdentityCurve)])]
  /\ UNCHANGED <<store, env, ctor, shaderLog, rdr, canvas, gl, last, view>>

NextShader == Shade

SpecShader == InitShader /\ [][NextShader]_vars

\* C20: under the default edits, and under edits with no field, the tone
\* curve lookup is off and every channel of the fragment the adjustment pass
\* writes is within 1 of the texel's.
C20_NeutralEditsIdentity ==
  (calc.fn = "main" /\ calc.out # <<>> /\ calc.arg.edits \in {DEFAULT_EDITS_ALL, EmptyEdits})
  => /\ ~AllUniforms(calc.arg.edits).curveEnabled
     /\ \A ch \in 1..3 : Abs(calc.out[ch] - calc.arg.in.texColor[ch]) <= 1

\* a saturated orange texel between unlike neighbours, shaded under the
\* default edits
C20_Witness ==
  /\ calc.fn = "main" /\ calc.out # <<>>
  /\ calc.arg.edits = DEFAULT_EDITS_ALL
  /\ calc.arg.in.texColor = <<255, 100, 0>>
  /\ calc.arg.in.above = <<0, 0, 0>>
  /\ calc.out = <<255, 100, 0>>

\* -------------------------------------------------------------- useEditStore
\* The store's edits are the fields of the edits the renderer model reads;
\* toneCurve stands for toneCurve.points.  A history entry keeps its edits
\* snapshot.
HISTORY_MAX == 100
MaxStoreOps == 4

Entry(edits) == [edits |-> edits]

setEdit(s, key, value) ==
  [s EXCEPT !.edits = [@ EXCEPT ![key] = value], !.isDirty = TRUE]

RECURSIVE SetPath(_, _, _)
SetPath(obj, path, value) ==
  IF Len(path) = 1 THEN [obj EXCEPT ![path[1]] = value]
  ELSE [obj EXCEPT ![path[1]] = SetPath(@, Tail(path), value)]

setNestedEdit(s, path, value) ==
  [s EXCEPT !.edits = SetPath(@, path, value), !.isDirty = TRUE]

resetEdit(s, key) ==
  [s EXCEPT !.edits = [@ EXCEPT ![key] = DEFAULT_EDITS[key]], !.isDirty = TRUE]

\* a push that never drops an entry
pushHistoryNoShift(s) ==
  Only({ [s EXCEPT !.history = history, !.historyIndex = Len(history) - 1] :
         history \in {Append(SubSeq(s.history, 1, s.historyIndex + 1), Entry(s.edits))} })

pushHistory(s) ==
  Only({ [s EXCEPT !.history = history, !.historyIndex = Len(history) - 1] :
         history \in {Only({ IF Len(h) > HISTORY_MAX THEN Tail(h) ELSE h :
                             h \in {Append(SubSeq(s.history, 1, s.historyIndex + 1),
                                           Entry(s.edits))} })} })

resetAllEdits(s) ==
  [pushHistory(s) EXCEPT !.edits = DEFAULT_EDITS, !.isDirty = FALSE]

loadEdits(s, edits) ==
  [edits |-> Spread(DEFAULT_EDITS, edits), isDirty |-> FALSE,
   history |-> <<>>, historyIndex |-> -1]

applyPreset(s, presetData) ==
  [pushHistory(s) EXCEPT !.edits = Spread(@, presetData), !.isDirty = TRUE]

\* history[historyIndex], with the array counted from 0
undo(s) ==
  IF s.historyIndex >= 0
  THEN [s EXCEPT !.edits = s.history[s.historyIndex + 1].edits,
                 !.historyIndex = @ - 1, !.isDirty = TRUE]
  ELSE s

\* history[historyIndex + 1], with the array counted from 0
redo(s) ==
  IF s.historyIndex < Len(s.history) - 1
  THEN [s EXCEPT !.edits = s.history[s.historyIndex + 2].edits,
                 !.historyIndex = @ + 1, !.isDirty = TRUE]
  ELSE s

canUndo(s) == s.historyIndex >= 0

\* the store after n <= HISTORY_MAX slider changes, each followed by its
\* pushHistory: change i sets the exposure to i % 2
Filled(n) ==
  [edits |-> Edit(n % 2, 0, DefaultCurve),
   history |-> [i \in 1..n |-> Entry(Edit(i % 2, 0, DefaultCurve))],
   historyIndex |-> n - 1,
   isDirty |-> TRUE]

StoreStarts == {NewStore, Filled(HISTORY_MAX - 1), Filled(HISTORY_MAX)}

\* for the store, calc names the last operation, keeps the edits it found,
\* whether it found the stack full to its end and whether undo was possible,
\* and counts the operations made
InitStore ==
  /\ InitRenderer
  /\ CoreEnv /\ env.fsFull /\ canvas.width = canvas.height
  /\ calc = [fn |-> "none", arg |-> <<>>, out |-> 0]
  /\ store \in StoreStarts

StoreOp(name, s) ==
  /\ calc.fn \in {"none", "setEdit", "setNestedEdit", "resetEdit", "resetAllEdits",
                  "loadEdits", "applyPreset", "pushHistory", "undo", "redo"}
  /\ calc.out < MaxStoreOps
  /\ store' = s
  /\ calc' = [fn |-> name,
              arg |-> [edits |-> store.edits,
                       full |-> (store.historyIndex = HISTORY_MAX - 1),
                       canUndo |-> canUndo(store)],
              out |-> calc.out + 1]
  /\ UNCHANGED <<env, ctor, shaderLog, rdr, canvas, gl, last, view>>

SetEdit == \E v \in {1, 2} : StoreOp("setEdit", setEdit(store, "exposure", v))

SetNestedEdit == StoreOp("setNestedEdit", setNestedEdit(store, <<"toneCurve", 3>>, <<128, 160>>))

ResetEdit == StoreOp("resetEdit", resetEdit(store, "exposure"))

ResetAllEdits == StoreOp("resetAllEdits", resetAllEdits(store))

LoadEdits == StoreOp("loadEdits", loadEdits(store, [contrast |-> 20]))

ApplyPreset == StoreOp("applyPreset", applyPreset(store, [exposure |-> 1, contrast |-> 20]))

PushHistory == StoreOp("pushHistory", pushHistory(store))

Undo == StoreOp("undo", undo(store))

Redo == StoreOp("redo", redo(store))

NextStore ==
  \/ SetEdit
  \/ SetNestedEdit
  \/ ResetEdit
  \/ ResetAllEdits
  \/ LoadEdits
  \/ ApplyPreset
  \/ PushHistory
  \/ Undo
  \/ Redo

SpecStore == InitStore /\ [][NextStore]_vars

C28_UndoRedoRoundTrip ==
  [][(calc.fn = "undo" /\ calc.arg.canUndo /\ calc'.fn = "redo")
     => store'.edits = calc.arg.edits]_vars

\* ------------------------------------------------- short tone curves
\* edits whose curve has two or more moved points, none, or one
CurveEdits ==
  {Edit(0, 0, CustomCurve), Edit(0, 0, SteepCurve), Edit(0, 0, IdentityCurve),
   Edit(0, 0, OnePointCurve), Edit(1, 0, OnePointCurve)}

CurveMaskLists == {<<>>, <<Mask(Adj(1, 0), TRUE, AlphaTop)>>}

NextCurve ==
  \/ Construct
  \/ \E img \in Images : LoadImage(img)
  \/ \E e \in CurveEdits : Render(e)
  \/ \E e \in CurveEdits, ms \in CurveMaskLists : RenderWithMasks(e, ms)

SpecCurve == InitMasks /\ [][NextCurve]_vars

\* the frame of the image under exposure and contrast alone
CurveFreeFrame(img, p) ==
  [y \in Rows |-> Store8(ContrastStage(ExposureStage(ImagePx(img)[y] * (ONE \div 255),
                                                     p.exposure), p.contrast))]

\* C22: a frame rendered from parameters whose tone curve has fewer than two
\* control points is drawn with the curve lookup disabled, so it is the frame
\* of exposure and contrast alone, whatever table an earlier custom curve
\* left in the LUT texture.
C22_ShortCurveIsIdentity ==
  (/\ last.op \in {"render", "renderWithMasks"} /\ last.drew
   /\ Len(last.edits.toneCurve) < 2)
  => /\ ~gl.uniforms.curveEnabled
     /\ last.op = "render" => canvas.px = CurveFreeFrame(rdr.image, last.edits)

\* a one-point curve rendered by the full program while the LUT texture
\* holds the table of an earlier custom curve
C22_Witness ==
  /\ last.op = "render" /\ last.drew /\ last.edits = Edit(1, 0, OnePointCurve)
  /\ rdr.program.src = "full" /\ gl.lutCurve \in {CustomCurve, SteepCurve}

\* ------------------------------------------------- headroom between stages
\* C23: no stage of the adjustment pass clamps the colour to [0,1] before the
\* final output: the colour that leaves the contrast stage is its linear
\* formula applied to what the exposure stage produced, also where that lies
\* above 1 or below 0.
C23_NoClampBetweenStages ==
  (calc.fn = "main" /\ calc.out # <<>>)
  => LET u == AllUniforms(calc.arg.edits)
         lut == LUTS[IdentityCurve]
         c0 == [ch \in 1..3 |-> calc.arg.in.texColor[ch] * (ONE \div 255)]
         c1 == Stage("exposure", c0, calc.arg.in, u, lut)
         c2 == Stage("contrast", c1, calc.arg.in, u, lut)
     IN  \A ch \in 1..3 : c2[ch] = ContrastLinear(c1[ch], u.contrast)

\* ------------------------------------------------- contrast slope
\* global contrast values of the slider's range and mask deltas of the same range
ContrastEdits == {Edit(0, 0, DefaultCurve), Edit(0, 60, DefaultCurve), Edit(0, 100, DefaultCurve)}

ContrastMaskLists ==
  {<<>>, <<Mask(Adj(0, 60), TRUE, AlphaTop)>>, <<Mask(Adj(0, 100), TRUE, AlphaHalf)>>}

NextContrast ==
  \/ Construct
  \/ \E img \in Images : LoadImage(img)
  \/ \E e \in ContrastEdits : Render(e)
  \/ \E e \in ContrastEdits, ms \in ContrastMaskLists : RenderWithMasks(e, ms)

SpecContrast == InitMasks /\ [][NextContrast]_vars

\* C24: whenever a frame or a mask layer has been drawn, the contrast c the
\* slope 259 (c + 255) / (255 (259 - c)) was computed from satisfies
\* 259 - c > 0, with c = 2.55 * contrast: the slope is finite and positive,
\* also for the sum of the global contrast and a mask's contrast delta.
C24_SlopePositive ==
  last.drew => 25900 - 255 * gl.uniforms.contrast > 0

\* ------------------------------------------------- combineEdits
\* every mask adjustment at a non-neutral value
MovedAdjustments ==
  [exposure |-> 1, contrast |-> 20, highlights |-> -30, shadows |-> 30, whites |-> 15,
   blacks |-> -15, temperature |-> 30, tint |-> -10, clarity |-> 25, dehaze |-> 10,
   saturation |-> 20, sharpness |-> 40, noiseReduction |-> 50]

DEFAULT_MASK_ADJUSTMENTS == [k \in DOMAIN MovedAdjustments |-> 0]

\* the defaults with one adjustment moved, all moved, none moved
Adjustments ==
  {DEFAULT_MASK_ADJUSTMENTS, MovedAdjustments}
    \cup {[DEFAULT_MASK_ADJUSTMENTS EXCEPT ![k] = MovedAdjustments[k]] :
            k \in DOMAIN MovedAdjustments}

\* global edits: complete ones, and ones without a sharpening object
Globals ==
  {DEFAULT_EDITS_ALL,
   [DEFAULT_EDITS_ALL EXCEPT !.exposure = -1, !.contrast = 60, !.saturation = -100,
                             !.sharpening.amount = 50, !.vibrance = 50],
   [DEFAULT_EDITS_ALL EXCEPT !.temperature = 50, !.hsl.redHue = 30, !.toneCurve = SteepCurve],
   Edit(1, 20, CustomCurve)}

InitCombine ==
  /\ InitRenderer /\ store = NewStore
  /\ CoreEnv /\ env.fsFull /\ canvas.width = canvas.height
  /\ calc \in {[fn |-> "combineEdits", arg |-> [global |-> g, maskAdj |-> a], out |-> NoObject] :
                 g \in Globals, a \in Adjustments}

\* one call of combineEdits: out is the heap when it returns
CombineEdits ==
  /\ calc.fn = "combineEdits" /\ calc.out = NoObject
  /\ calc' = [calc EXCEPT !.out = combineEditsOn(HeapOf(calc.arg.global, calc.arg.maskAdj))]
  /\ UNCHANGED <<store, env, ctor, shaderLog, rdr, canvas, gl, last, view>>

NextCombine == CombineEdits

SpecCombine == InitCombine /\ [][NextCombine]_vars

\* C25: combineEdits(global, adj) returns new objects in which each of the
\* eleven added fields is global's plus adj's, sharpening.amount is global's
\* plus adj.sharpness, and every other field is global's; when it returns the
\* global edits and the adjustments hold what they held before.
C25_CombineEdits ==
  (calc.fn = "combineEdits" /\ calc.out # NoObject)
  => LET g == calc.arg.global
         a == calc.arg.maskAdj
         c == ValueAt(calc.out, "combined")
         gs == Field(g, "sharpening", NoObject)
         cs == Field(c, "sharpening", NoObject)
         added == {AddKeys[i] : i \in 1..Len(AddKeys)}
     IN  /\ \A k \in added : Field(c, k, 0) = Field(g, k, 0) + a[k]
         /\ Field(cs, "amount", 0) = Field(gs, "amount", 0) + a.sharpness
         /\ \A k \in DOMAIN g \ (added \cup {"sharpening"}) : k \in DOMAIN c /\ c[k] = g[k]
         /\ DOMAIN c \subseteq DOMAIN g \cup added \cup {"sharpening"}
         /\ \A k \in DOMAIN gs \ {"amount"} : k \in DOMAIN cs /\ cs[k] = gs[k]
         /\ DOMAIN cs \subseteq DOMAIN gs \cup {"amount"}
         /\ ValueAt(calc.out, "global") = g
         /\ calc.out.maskAdj = a
         /\ Field(calc.out.combined, "sharpening", "combinedSharpening") = "combinedSharpening"

\* a call whose adjustments move the contrast and the sharpness of global
\* edits that own a sharpening object
C25_Witness ==
  /\ calc.fn = "combineEdits" /\ calc.out # NoObject
  /\ calc.arg.maskAdj = MovedAdjustments
  /\ "sharpening" \in DOMAIN calc.arg.global
  /\ ValueAt(calc.out, "combined").sharpening.amount = 90

\* ------------------------------------------------- ping-pong targets
\* lists of one, two and three enabled masks, and one with a disabled mask
\* between two enabled ones
PingPongLists ==
  { <<Mask(Adj(1, 0), TRUE, AlphaTop)>>,
    <<Mask(Adj(1, 0), TRUE, AlphaTop), Mask(Adj(-1, 20), TRUE, AlphaHalf)>>,
    <<Mask(Adj(1, 0), TRUE, AlphaTop), Mask(Adj(1, 0), FALSE, AlphaFull),
      Mask(Adj(-1, 20), TRUE, AlphaHalf)>>,
    <<Mask(Adj(1, 0), TRUE, AlphaTop), Mask(Adj(-1, 20), TRUE, AlphaHalf),
      Mask(Adj(0, 60), TRUE, AlphaFull)>> }

NextPingPong ==
  \/ Construct
  \/ \E img \in Images : LoadImage(img)
  \/ \E e \in FewEdits : Render(e)
  \/ \E e \in FewEdits, ms \in PingPongLists : RenderWithMasks(e, ms)
  \/ \E sz \in CanvasSizes : ResizeCanvas(sz[1], sz[2])

SpecPingPong == InitMasks /\ [][NextPingPong]_vars

\* the blend passes of a pass log, in order
BlendPasses(log) == SelectSeq(log, LAMBDA p : p.program = "blend")

\* C26: in a masked render the accumulation targets are pool slots 0 and 1
\* (cells 1 and 2 of fboPool here, cell 3 is the scratch slot, 0 the canvas):
\* the base frame goes to slot 0, the i-th blend reads slot (i-1) mod 2 and
\* the scratch slot and writes slot i mod 2, no pass samples the target it
\* writes, and the frame drawn to the canvas after k enabled masks is read
\* from slot k mod 2; a pool that fits is not rebuilt, the only objects
\* created are the k mask textures.
C26_PingPongSlots ==
  (last.op = "renderWithMasks" /\ last.passes)
  => LET log == last.passLog
         k == Len(enabledIdxs(last.masks))
         blends == BlendPasses(log)
     IN  /\ Len(log) = 2 * k + 2
         /\ log[1] = [program |-> "adjust", reads |-> {}, writes |-> 1]
         /\ Len(blends) = k
         /\ \A i \in 1..k :
              /\ log[2 * i] = [program |-> "adjust", reads |-> {}, writes |-> 3]
              /\ log[2 * i + 1] = blends[i]
              /\ blends[i].reads = {((i - 1) % 2) + 1, 3}
              /\ blends[i].writes = (i % 2) + 1
         /\ \A i \in 1..Len(log) : log[i].writes \notin log[i].reads
         /\ log[Len(log)] = [program |-> "draw", reads |-> {(k % 2) + 1}, writes |-> 0]
         /\ last.poolFits => (last.poolBuilds = 0 /\ last.allocs = k)

\* three enabled masks: the roles have swapped three times and the frame is
\* drawn from the second accumulation target
C26_Witness ==
  /\ last.op = "renderWithMasks" /\ last.passes /\ last.drew
  /\ Len(enabledIdxs(last.masks)) = 3
  /\ last.passLog[Len(last.passLog)].reads = {2}

\* ------------------------------------------------- reloading the image
NextReload ==
  \/ Construct
  \/ \E img \in Images : LoadImage(img)
  \/ \E e \in FewEdits : Render(e)
  \/ \E e \in FewEdits, ms \in FewMaskLists : RenderWithMasks(e, ms)
  \/ \E e \in FewEdits, sz \in CanvasSizes : RenderForExport(e, sz[1], sz[2])
  \/ ContextLost
  \/ ContextRestored

SpecReload == InitMasks /\ [][NextReload]_vars

\* C27: once loadImage has run imageLoaded is true and no later loadImage,
\* render, renderWithMasks or renderForExport makes it false; the context
\* never holds more than one image texture and one LUT texture of the
\* renderer, a reload deleting the previous ones.
C27_LoadedForGood ==
  /\ [](/\ last.op = "loadImage" => rdr.imageLoaded
        /\ gl.live.image <= 1 /\ gl.live.lut <= 1
        /\ rdr.imageLoaded => (gl.live.image = gl.live.lut))
  /\ [][rdr.imageLoaded => rdr'.imageLoaded]_vars

\* a second loadImage: both earlier textures were deleted and one of each is alive
C27_Witness ==
  /\ last.op = "loadImage" /\ last.deletes = 2 /\ last.allocs = 2
  /\ rdr.imageLoaded /\ gl.live = [image |-> 1, lut |-> 1]

\* ------------------------------------------------- DevelopView image loading
MaxLoads == 3

\* file path p holds image p; 0 is no active file
FilePaths == {0} \cup Images

\* the cleanup of the effect run that is current: cancelled = true
CancelCurrent(loads) ==
  IF Len(loads) = 0 THEN loads ELSE [loads EXCEPT ![Len(loads)].cancelled = TRUE]

\* destroy(): the pool, the image texture and the LUT texture are deleted
destroy(S) ==
  DeleteTexture(DeleteTexture(destroyFBOs(S), "image", S.texture), "lut", S.curveTexture)

\* activeFilePath changes: the cleanup of the previous run, then a new run of
\* the effect up to its await
SelectFile(p) ==
  /\ view.rendererRef # "unset" /\ ~view.unmounted
  /\ p # view.activeFilePath
  /\ Len(view.loads) < MaxLoads
  /\ view' = [view EXCEPT
                !.activeFilePath = p,
                !.loads = IF p = 0 THEN CancelCurrent(@)
                          ELSE Append(CancelCurrent(@),
                                      [path |-> p, stage |-> "ipc", cancelled |-> FALSE]),
                !.imageLoaded = IF p = 0 THEN @ ELSE FALSE,
                !.loadedImage = IF p = 0 THEN @ ELSE 0,
                !.fired = NoneFired]
  /\ last' = [NoCall EXCEPT !.op = "selectFile"]
  /\ UNCHANGED <<store, calc, env, ctor, shaderLog, rdr, canvas, gl>>

\* the component unmounts: both cleanups run
Unmount ==
  /\ view.rendererRef # "unset" /\ ~view.unmounted
  /\ view' = [view EXCEPT !.unmounted = TRUE, !.rendererRef = "null",
                          !.loads = CancelCurrent(@), !.fired = NoneFired]
  /\ IF view.rendererRef = "set"
     THEN \E S \in {destroy(Pack)} :
            Commit(S) /\ last' = Call("unmount", view.edits, view.masks, S)
     ELSE /\ last' = [NoCall EXCEPT !.op = "unmount"]
          /\ UNCHANGED <<rdr, canvas, gl>>
  /\ UNCHANGED <<store, calc, env, ctor, shaderLog>>

\* loadImageBase64 resolves (ok) or yields nothing: if (!dataUri || cancelled) return
IpcReply(i, ok) ==
  /\ view.loads[i].stage = "ipc"
  /\ view' = [view EXCEPT !.loads[i].stage = IF ok /\ ~view.loads[i].cancelled
                                             THEN "decode" ELSE "done",
                          !.fired = [run |-> i, called |-> FALSE]]
  /\ last' = [NoCall EXCEPT !.op = "ipcReply"]
  /\ UNCHANGED <<store, calc, env, ctor, shaderLog, rdr, canvas, gl>>

\* img.onload without the cancelled test
ImageOnloadUnchecked(i) ==
  /\ view.loads[i].stage = "decode"
  /\ \E v \in {[view EXCEPT !.loadedImage = view.loads[i].path, !.imageLoaded = TRUE,
                            !.loads[i].stage = "raf",
                            !.fired = [run |-> i, called |-> view.rendererRef = "set"]]} :
       /\ view' = v
       /\ IF view.rendererRef = "set"
          THEN \E S \in {RerenderEffect(render(loadImage(Pack, view.loads[i].path),
                                               view.edits), v)} :
                 Commit(S) /\ last' = Call("imageOnload", view.edits, view.masks, S)
          ELSE /\ last' = [NoCall EXCEPT !.op = "imageOnload"]
               /\ UNCHANGED <<rdr, canvas, gl>>
  /\ UNCHANGED <<store, calc, env, ctor, shaderLog>>

\* img.onload: if (cancelled) return; loadedImageRef = img; renderer.loadImage(img);
\* renderer.render(edits); setImageLoaded(true) and the re-render effect it triggers
ImageOnload(i) ==
  /\ view.loads[i].stage = "decode"
  /\ IF view.loads[i].cancelled
     THEN /\ view' = [view EXCEPT !.loads[i].stage = "done",
                                  !.fired = [run |-> i, called |-> FALSE]]
          /\ last' = [NoCall EXCEPT !.op = "imageOnload"]
          /\ UNCHANGED <<rdr, canvas, gl>>
     ELSE \E v \in {[view EXCEPT !.loadedImage = view.loads[i].path, !.imageLoaded = TRUE,
                                 !.loads[i].stage = "raf",
                                 !.fired = [run |-> i, called |-> view.rendererRef = "set"]]} :
            /\ view' = v
            /\ IF view.rendererRef = "set"
               THEN \E S \in {RerenderEffect(render(loadImage(Pack, view.loads[i].path),
                                                    view.edits), v)} :
                      Commit(S) /\ last' = Call("imageOnload", view.edits, view.masks, S)
               ELSE /\ last' = [NoCall EXCEPT !.op = "imageOnload"]
                    /\ UNCHANGED <<rdr, canvas, gl>>
  /\ UNCHANGED <<store, calc, env, ctor, shaderLog>>

\* img.onerror: setImageLoaded(false)
ImageOnerror(i) ==
  /\ view.loads[i].stage = "decode"
  /\ view' = [view EXCEPT !.loads[i].stage = "done", !.imageLoaded = FALSE,
                          !.fired = [run |-> i, called |-> FALSE]]
  /\ last' = [NoCall EXCEPT !.op = "imageOnerror"]
  /\ UNCHANGED <<store, calc, env, ctor, shaderLog, rdr, canvas, gl>>

\* the requestAnimationFrame callback: if (cancelled) return;
\* if (renderer && loadedImageRef.current) renderer.render(edits)
AnimationFrame(i) ==
  /\ view.loads[i].stage = "raf"
  /\ IF ~view.loads[i].cancelled /\ view.rendererRef = "set" /\ view.loadedImage # 0
     THEN /\ view' = [view EXCEPT !.loads[i].stage = "done",
                                  !.fired = [run |-> i, called |-> TRUE]]
          /\ \E S \in {render(Pack, view.edits)} :
               Commit(S) /\ last' = Call("animationFrame", view.edits, view.masks, S)
     ELSE /\ view' = [view EXCEPT !.loads[i].stage = "done",
                                  !.fired = [run |-> i, called |-> FALSE]]
          /\ last' = [NoCall EXCEPT !.op = "animationFrame"]
          /\ UNCHANGED <<rdr, canvas, gl>>
  /\ UNCHANGED <<store, calc, env, ctor, shaderLog>>

NextLoad ==
  \/ Mount
  \/ \E p \in FilePaths : SelectFile(p)
  \/ Unmount
  \/ \E i \in 1..Len(view.loads), ok \in BOOLEAN : IpcReply(i, ok)
  \/ \E i \in 1..Len(view.loads) : ImageOnload(i)
  \/ \E i \in 1..Len(view.loads) : ImageOnerror(i)
  \/ \E i \in 1..Len(view.loads) : AnimationFrame(i)

SpecLoad == InitApp /\ [][NextLoad]_vars

\* run i of the image loading effect is the one for the file shown now
IsCurrent(i) ==
  /\ ~view.unmounted
  /\ i = Len(view.loads)
  /\ ~view.loads[i].cancelled
  /\ view.loads[i].path = view.activeFilePath

\* C29: a completion of an image load (the IPC reply, the image's onload or
\* onerror, the animation-frame callback) that arrives after the active file
\* path has changed or the view has unmounted calls neither loadImage nor
\* render and leaves renderer, context and canvas as they are; the renderer's
\* image only ever becomes the image of the active file.
C29_StaleLoadsDropped ==
  /\ [][(/\ last'.op \in {"ipcReply", "imageOnload", "imageOnerror", "animationFrame"}
         /\ view'.fired.run \in 1..Len(view.loads)
         /\ ~IsCurrent(view'.fired.run))
        => (~view'.fired.called /\ rdr' = rdr /\ gl' = gl /\ canvas' = canvas)]_vars
  /\ [][rdr'.image # rdr.image
        => (~view.unmounted /\ rdr'.image = view.activeFilePath)]_vars

\* the onload of a superseded load has arrived while a renderer exists, and
\* the renderer's image is not that load's
C29_Witness ==
  /\ last.op = "imageOnload" /\ view.fired.run \in 1..Len(view.loads)
  /\ view.loads[view.fired.run].cancelled /\ ~view.fired.called
  /\ view.rendererRef = "set" /\ ~view.unmounted
  /\ view.activeFilePath # view.loads[view.fired.run].path
  /\ rdr.image # view.loads[view.fired.run].path

\* ------------------------------------------------- missing compositing programs
\* the renderer's interface on platforms where the blend shader, the draw
\* shader, both or neither fail to compile or link
NextDegrade ==
  \/ Construct
  \/ \E img \in Images : ~rdr.imageLoaded /\ LoadImage(img)
  \/ \E e \in EditSet : Render(e)
  \/ \E e \in EditSet, ms \in FewMaskLists : RenderWithMasks(e, ms)
  \/ \E sz \in CanvasSizes : ResizeCanvas(sz[1], sz[2])

SpecDegrade == InitCtx /\ [][NextDegrade]_vars

\* C30: a renderWithMasks with enabled masks after which the blend program or
\* the draw program is still missing has left the canvas and the context as
\* render(edits) leaves them: the only draw call is the adjustment pass to
\* the canvas, no offscreen pass is issued and nothing is thrown.
C30_DegradesToRender ==
  [][(/\ last'.op = "renderWithMasks"
      /\ Len(enabledIdxs(last'.masks)) >= 1
      /\ (rdr'.blendProgram = NULL \/ rdr'.drawProgram = NULL
            \/ Len(rdr'.fboPool) < POOL_SIZE))
     => LET R == render(Pack, last'.edits)
        IN  /\ canvas' = CanvasOf(R) /\ gl' = ContextOf(R)
            /\ last'.drew = R.drew /\ last'.passLog = R.passLog
            /\ ~last'.passes /\ ~last'.threw
            /\ \A i \in 1..Len(last'.passLog) : last'.passLog[i].writes = 0]_vars

\* the draw program exists, the blend program could not be built: the pool
\* was set up and the unmasked frame drawn
C30_Witness ==
  /\ last.op = "renderWithMasks" /\ Len(enabledIdxs(last.masks)) >= 1
  /\ rdr.blendProgram = NULL /\ rdr.drawProgram # NULL
  /\ last.poolBuilds = 1 /\ last.drew /\ Len(last.passLog) = 1
  /\ canvas.px = Frame(rdr.program.src, rdr.image, last.edits)

====
